---- MODULE Spec2Model ----
(***************************************************************************)
(* A model of the registry service of aceyu/engine (registry/service.go):  *)
(* DefaultService.Auth, the endpoint fallback loop, and                     *)
(* DefaultService.Search, the concurrent fan-out over the query            *)
(* registries with its shared result slice, ranking and de-duplication.    *)
(***************************************************************************)
EXTENDS Integers, Sequences, FiniteSets, TLC

\* ------------------------------------------------------------------ bounds

\* Longest endpoint list LookupPushEndpoints hands to Auth.
MaxEndpoints == 3
\* Most registries QueryRegistries() lists.
MaxRegistries == 2
\* Most results one provider search returns.
MaxHits == 1
\* Most results collected when the ranking is looked at on its own.
MaxRankLen == 2
\* Most calls on the service that run at once beside a Search.
MaxCallers == 2
\* Longest list given to a load.
MaxEntries == 2

\* The longest path of a raw image name, in segments.
MaxSegments == 2

\* ------------------------------------------------------------------ errors

\* Go's nil error.
Nil == [kind |-> "nil", id |-> 0]

\* An error value; id tells apart the errors of different endpoints or tasks.
Err(kind, id) == [kind |-> kind, id |-> id]

\* err.(fallbackError): the type assertion of the fallback loops.
IsFallback(e) == e.kind = "fallbackError"

\* fErr.err: the error a fallbackError wraps.
FallbackInner(e) == [kind |-> "wrapped", id |-> e.id]

\* ------------------------------------------------------------------ Auth

VARIABLES
    authPc,         \* "idle", "loop" (inside the range over endpoints), "done"
    authEndpoints,  \* endpoints, as returned by LookupPushEndpoints
    authIdx,        \* position of the range loop (1-based index of the next endpoint)
    authStatus,     \* named result status
    authToken,      \* named result token
    authErr,        \* named result err
    authRet,        \* what Auth returned: <<status, token, err>>, or <<>> before it returns
    authAttempts,   \* history: the login calls made, in order
    authLog         \* history: the logrus.Infof fallback lines written, in order

authVars == <<authPc, authEndpoints, authIdx, authStatus, authToken, authErr,
              authRet, authAttempts, authLog>>

\* --- the state of one Search call

VARIABLES
    queryRegistries,  \* QueryRegistries(): the registries an unqualified search asks, in order
    searchPc,         \* "idle", "single", "spawn", "recv", "rank", "returned"
    term,             \* Search's term
    noIndex,          \* Search's noIndex
    results,          \* the slice shared by Search and its searchTerm calls
    spawned,          \* go statements executed
    received,         \* completions received from resultChan
    searchErr,        \* err of the fan-out block
    successfulSearch, \* successfulSearch of the fan-out block
    searchRet,        \* what Search returned
    mu,               \* s.mu: 0 when free, else 1 + the holder's task
    task,             \* per searchTerm call: task[0] is the inline call, task[i] goroutine i
    panicked,         \* a goroutine panicked: the process is gone
    lastReceived,     \* history: the task whose completion was received last (0: none)
    errLogged,        \* history: number of logrus.Errorf lines of the receive loop
    lockCount         \* history: number of s.mu.Lock() calls that returned

searchVars == <<queryRegistries, searchPc, term, noIndex, results, spawned, received,
                searchErr, successfulSearch, searchRet, mu, task, panicked,
                lastReceived, errLogged, lockCount>>

\* What only Search itself writes, and what only the searchTerm calls write.
parentVars == <<queryRegistries, searchPc, term, noIndex, spawned, received, searchErr,
                successfulSearch, searchRet, lastReceived, errLogged>>

\* What Search and its searchTerm calls write, s.mu apart.
searchVarsButMu == <<queryRegistries, searchPc, term, noIndex, results, spawned, received,
                     searchErr, successfulSearch, searchRet, task, panicked,
                     lastReceived, errLogged, lockCount>>

\* --- the configuration, and the calls that load and read it

VARIABLES
    config,     \* s.config
    call,       \* per caller: the DefaultService call it is in
    committed   \* history: s.config as the last load that replaced anything left it

configVars == <<config, call, committed>>

\* --- one run of the reference helpers over one raw name and one index name
VARIABLES
    refRun      \* the raw name, the index name and every value computed from them

refVars == <<refRun>>

vars == <<authVars, searchVars, configVars, refVars>>

APIVersion1 == "v1"
APIVersion2 == "v2"

\* An APIEndpoint, reduced to the fields Auth and the lookups read.
APIEndpoint == [Version : {APIVersion1, APIVersion2}, Mirror : {FALSE}]

RECURSIVE SeqsUpTo(_, _)
SeqsUpTo(S, n) ==
    IF n = 0 THEN {<<>>}
    ELSE LET shorter == SeqsUpTo(S, n - 1)
         IN  shorter \cup {Append(s, x) : s \in {t \in shorter : Len(t) = n - 1}, x \in S}

\* The server addresses a caller may put in authConfig.ServerAddress.
ServerAddresses == {"", "reg.a", "https://reg.a", "http://reg.a"}

EmptyString == <<>>

\* What a login call on endpoint i can return.
LoginResults(i) ==
    {[status |-> <<"Login Succeeded", i>>, token |-> tk, err |-> Nil] :
        tk \in {EmptyString, <<"token", i>>}}
    \cup {[status |-> EmptyString, token |-> EmptyString, err |-> Err("fallbackError", i)]}
    \cup {[status |-> EmptyString, token |-> EmptyString, err |-> Err("fatal", i)]}

AuthReturn(status, token, err) ==
    /\ authPc' = "done"
    /\ authRet' = <<status, token, err>>

\* Auth up to the endpoint loop: the server address defaults to IndexServerAddress(),
\* gets a scheme when it has none (which changes no branch), is parsed by url.Parse,
\* and the push endpoints of its host are looked up.
AuthBegin ==
    /\ UNCHANGED <<searchVars, configVars, refVars>>
    /\ authPc = "idle"
    /\ \E addr \in ServerAddresses, indexServerAddress \in {"", "https://reg.a"},
          parseOk \in BOOLEAN, lookupOk \in BOOLEAN,
          eps \in SeqsUpTo(APIEndpoint, MaxEndpoints) :
        LET serverAddress == IF addr = "" THEN indexServerAddress ELSE addr
        IN  IF serverAddress = ""
            THEN /\ AuthReturn(EmptyString, EmptyString, Err("NoConfiguredRegistry", 0))
                 /\ UNCHANGED <<authEndpoints, authErr>>
            ELSE IF ~parseOk
            THEN /\ AuthReturn(EmptyString, EmptyString, Err("InvalidParameter", 1))
                 /\ UNCHANGED <<authEndpoints, authErr>>
            ELSE IF ~lookupOk
            THEN /\ AuthReturn(EmptyString, EmptyString, Err("InvalidParameter", 2))
                 /\ UNCHANGED <<authEndpoints, authErr>>
            ELSE /\ authPc' = "loop"
                 /\ authEndpoints' = eps
                 /\ authErr' = Nil
                 /\ UNCHANGED authRet
    /\ UNCHANGED <<authIdx, authStatus, authToken, authAttempts, authLog>>

\* AuthOnSuccess with the return forgotten: the loop goes on after a success.
AuthOnSuccessContinues(r) ==
    /\ authStatus' = r.status
    /\ authToken' = r.token
    /\ authErr' = r.err
    /\ authIdx' = authIdx + 1
    /\ UNCHANGED <<authPc, authRet, authLog>>

\* err == nil: return with the named results as login set them.
AuthOnSuccess(r) ==
    /\ authStatus' = r.status
    /\ authToken' = r.token
    /\ authErr' = r.err
    /\ AuthReturn(r.status, r.token, r.err)
    /\ UNCHANGED <<authIdx, authLog>>

\* AuthOnFallback without the log line.
AuthOnFallbackSilent(endpoint, r) ==
    /\ authStatus' = r.status
    /\ authToken' = r.token
    /\ authErr' = FallbackInner(r.err)
    /\ authIdx' = authIdx + 1
    /\ UNCHANGED <<authPc, authRet, authLog>>

\* AuthOnFallback keeping the first fallback error instead of the latest.
AuthOnFallbackKeepsFirst(endpoint, r) ==
    /\ authStatus' = r.status
    /\ authToken' = r.token
    /\ authErr' = IF authErr = Nil THEN FallbackInner(r.err) ELSE authErr
    /\ authLog' = Append(authLog, [version |-> endpoint.Version,
                                   err |-> FallbackInner(r.err)])
    /\ authIdx' = authIdx + 1
    /\ UNCHANGED <<authPc, authRet>>

\* err is a fallbackError: unwrap it into err, log, continue with the next endpoint.
AuthOnFallback(endpoint, r) ==
    /\ authStatus' = r.status
    /\ authToken' = r.token
    /\ authErr' = FallbackInner(r.err)
    /\ authLog' = Append(authLog, [version |-> endpoint.Version,
                                   err |-> FallbackInner(r.err)])
    /\ authIdx' = authIdx + 1
    /\ UNCHANGED <<authPc, authRet>>

\* AuthOnFatal treating the error as one more reason to try the next endpoint.
AuthOnFatalContinues(r) ==
    /\ authStatus' = r.status
    /\ authToken' = r.token
    /\ authErr' = r.err
    /\ authIdx' = authIdx + 1
    /\ UNCHANGED <<authPc, authRet, authLog>>

\* any other error: return "", "", err.
AuthOnFatal(r) ==
    /\ authStatus' = r.status
    /\ authToken' = r.token
    /\ authErr' = r.err
    /\ AuthReturn(EmptyString, EmptyString, r.err)
    /\ UNCHANGED <<authIdx, authLog>>

\* One iteration of the range over endpoints: a login call and the three ways on.
AuthAttempt ==
    /\ UNCHANGED <<searchVars, configVars, refVars>>
    /\ authPc = "loop"
    /\ authIdx <= Len(authEndpoints)
    /\ LET endpoint == authEndpoints[authIdx]
           login == IF endpoint.Version = APIVersion1 THEN "loginV1" ELSE "loginV2"
       IN  \E r \in LoginResults(authIdx) :
            /\ authAttempts' = Append(authAttempts,
                                      [ep |-> authIdx, login |-> login, res |-> r])
            /\ IF r.err = Nil
               THEN AuthOnSuccess(r)
               ELSE IF IsFallback(r.err)
               THEN AuthOnFallback(endpoint, r)
               ELSE AuthOnFatal(r)
    /\ UNCHANGED authEndpoints

\* The range is exhausted: return "", "", err with whatever err holds.
AuthExhausted ==
    /\ UNCHANGED <<searchVars, configVars, refVars>>
    /\ authPc = "loop"
    /\ authIdx > Len(authEndpoints)
    /\ AuthReturn(EmptyString, EmptyString, authErr)
    /\ UNCHANGED <<authEndpoints, authIdx, authStatus, authToken, authErr,
                   authAttempts, authLog>>

\* ------------------------------------------------------------------ strings

\* Strings are sequences of one-character strings, so that the splitting and the
\* comparisons of the code are computed and not assumed.
Alphabet == <<".", "/", "0", "1", "2", "3", "4", ":", "a", "b", "c", "d", "h", "l", "o",
              "r", "s", "t", "u">>

\* The byte value order of the characters (ASCII order of Alphabet).
Ord(c) == CHOOSE k \in 1..Len(Alphabet) : Alphabet[k] = c

\* strings.Index(s, c) for a one-character c, 1-based; 0 when c does not occur.
IndexOfChar(s, c) ==
    IF \E k \in 1..Len(s) : s[k] = c
    THEN CHOOSE k \in 1..Len(s) : s[k] = c /\ \A j \in 1..(k - 1) : s[j] # c
    ELSE 0

\* strings.Contains(s, c) for a one-character c.
ContainsChar(s, c) == IndexOfChar(s, c) # 0

\* strings.Contains(s, "://")
ContainsScheme(s) ==
    \E k \in 1..(Len(s) - 2) : s[k] = ":" /\ s[k + 1] = "/" /\ s[k + 2] = "/"

\* Go's < on strings: bytewise lexicographic, a proper prefix first.
StrLess(a, b) ==
    \E k \in 1..Len(b) :
        /\ \A j \in 1..(k - 1) : j <= Len(a) /\ a[j] = b[j]
        /\ \/ Len(a) = k - 1
           \/ Len(a) >= k /\ Ord(a[k]) < Ord(b[k])

\* strings.SplitN(s, "/", 2)
SplitN2(s) ==
    LET k == IndexOfChar(s, "/")
    IN  IF k = 0 THEN <<s>>
        ELSE <<SubSeq(s, 1, k - 1), SubSeq(s, k + 1, Len(s))>>

Localhost == <<"l", "o", "c", "a", "l", "h", "o", "s", "t">>

\* IndexServerName(): the name of the default index.
IndexServerName == <<"d", ".", "0">>

\* splitReposSearchTerm breaks a search term into an index name and a remote name.
splitReposSearchTerm(reposName, fixMissingIndex) ==
    LET nameParts == SplitN2(reposName)
    IN  IF \/ Len(nameParts) = 1
           \/ /\ ~ContainsChar(nameParts[1], ".")
              /\ ~ContainsChar(nameParts[1], ":")
              /\ nameParts[1] # Localhost
        THEN [indexName |-> IF fixMissingIndex THEN IndexServerName ELSE EmptyString,
              remoteName |-> reposName]
        ELSE [indexName |-> nameParts[1], remoteName |-> nameParts[2]]

\* isReposSearchTermFullyQualified with the comparison inverted.
isReposSearchTermFullyQualifiedInverted(t) ==
    splitReposSearchTerm(t, FALSE).indexName = EmptyString

isReposSearchTermFullyQualified(t) ==
    splitReposSearchTerm(t, FALSE).indexName # EmptyString

\* validateNoScheme: a term with a scheme is refused.
validateNoScheme(t) == ~ContainsScheme(t)

\* ------------------------------------------------------------------ Search: state

Digit == <<"1", "2", "3", "4">>

\* The i-th registry name of the configurations explored: "r.1", "r.2", ...
RegistryName(i) == <<"r", ".", Digit[i]>>

\* The configurations explored: the first n registries, for every n up to the bound.
QueryRegistryLists == {[i \in 1..n |-> RegistryName(i)] : n \in 0..MaxRegistries}

\* The search terms explored: "a", "r.1/a" (qualified), "u/://" (unqualified, with a scheme).
Terms == {<<"a">>, <<"r", ".", "1", "/", "a">>, <<"u", "/", ":", "/", "/">>}

\* A registrytypes.SearchResultExt, reduced to the fields the ranking reads.
SearchResultExt(indexName, registryName, starCount, name, description) ==
    [IndexName |-> indexName, RegistryName |-> registryName, StarCount |-> starCount,
     Name |-> name, Description |-> description]

\* The zero value make() fills a new slice with.
ZeroResult == SearchResultExt(EmptyString, EmptyString, 0, EmptyString, EmptyString)

\* The results the providers hold: "a" with one star, and "r.1/a", which names its
\* registry itself.
Hits == <<[Name |-> <<"a">>, StarCount |-> 1, Description |-> EmptyString],
          [Name |-> <<"r", ".", "1", "/", "a">>, StarCount |-> 0, Description |-> <<"d">>]>>

\* A nil slice and a slice of items.
NilResults == [isNil |-> TRUE, items |-> <<>>]
Slice(items) == [isNil |-> FALSE, items |-> items]

\* ------------------------------------------------------------------ ranking

\* The less function comparing the rating before the index.
lessStarsFirst(withIndex, fst, snd) ==
    IF fst.StarCount # snd.StarCount
    THEN fst.StarCount > snd.StarCount
    ELSE IF withIndex /\ fst.IndexName # snd.IndexName
    THEN StrLess(fst.IndexName, snd.IndexName)
    ELSE IF fst.RegistryName # snd.RegistryName
    THEN StrLess(fst.RegistryName, snd.RegistryName)
    ELSE IF fst.Name # snd.Name
    THEN StrLess(fst.Name, snd.Name)
    ELSE StrLess(fst.Description, snd.Description)

\* getSearchResultsCmpFunc(withIndex): the less function of the sort.
less(withIndex, fst, snd) ==
    IF withIndex /\ fst.IndexName # snd.IndexName
    THEN StrLess(fst.IndexName, snd.IndexName)
    ELSE IF withIndex /\ fst.StarCount # snd.StarCount
    THEN fst.StarCount > snd.StarCount
    ELSE IF fst.RegistryName # snd.RegistryName
    THEN StrLess(fst.RegistryName, snd.RegistryName)
    ELSE IF ~withIndex /\ fst.StarCount # snd.StarCount
    THEN fst.StarCount > snd.StarCount
    ELSE IF fst.Name # snd.Name
    THEN StrLess(fst.Name, snd.Name)
    ELSE StrLess(fst.Description, snd.Description)

\* The orders of the elements of data.
Orderings(data) ==
    LET n == Len(data)
        perms == {f \in [1..n -> 1..n] : \A i, j \in 1..n : f[i] = f[j] => i = j}
    IN  {[i \in 1..n |-> data[f[i]]] : f \in perms}

\* by(cmpFunc).Sort(results): sort.Sort is not stable, so any order of data that
\* the less function accepts may come out.
Sort(withIndex, data) ==
    {p \in Orderings(data) :
        \A i \in 1..(Len(p) - 1) : ~less(withIndex, p[i + 1], p[i])}

\* The priority loop of removeSearchDuplicates: the position of indexName among the
\* query registries (0-based), their number when it is not one of them.
Priority(indexName) ==
    IF \E k \in 1..Len(queryRegistries) : queryRegistries[k] = indexName
    THEN (CHOOSE k \in 1..Len(queryRegistries) :
            /\ queryRegistries[k] = indexName
            /\ \A j \in 1..(k - 1) : queryRegistries[j] # indexName) - 1
    ELSE Len(queryRegistries)

\* The loop of removeSearchDuplicates from data[i] on, res being what it has kept
\* (prevIndex is always the last index of res).
\* The test with the rating before the priority of the index.
replacesPrevStarsFirst(prev, curr) ==
    LET prioPrev == Priority(prev.IndexName)
        prioCurr == Priority(curr.IndexName)
    IN  \/ prev.StarCount < curr.StarCount
        \/ prev.StarCount = curr.StarCount /\ prioPrev > prioCurr

\* The test of removeSearchDuplicates that replaces the previous entry with the
\* current one.
replacesPrev(prev, curr) ==
    LET prioPrev == Priority(prev.IndexName)
        prioCurr == Priority(curr.IndexName)
    IN  \/ prioPrev > prioCurr
        \/ prioPrev = prioCurr /\ prev.StarCount < curr.StarCount

RECURSIVE DedupFrom(_, _, _)
DedupFrom(data, i, res) ==
    IF i > Len(data) THEN res
    ELSE LET prev == res[Len(res)]
             curr == data[i]
         IN  IF prev.RegistryName = curr.RegistryName /\ prev.Name = curr.Name
             THEN IF replacesPrev(prev, curr)
                  THEN DedupFrom(data, i + 1, [res EXCEPT ![Len(res)] = curr])
                  ELSE DedupFrom(data, i + 1, res)
             ELSE DedupFrom(data, i + 1, Append(res, curr))

removeSearchDuplicates(data) ==
    IF Len(data) > 0 THEN Slice(DedupFrom(data, 2, <<data[1]>>)) ELSE NilResults

\* ------------------------------------------------------------------ searchTerm

Tasks == 0..MaxRegistries

\* A searchTerm call that has not begun.
\* The *types.AuthConfig a Search is called with: none, or one with or without an
\* identity token and a user name.
NoAuthConfig == [isNil |-> TRUE, IdentityToken |-> "", Username |-> ""]

AuthConfigs ==
    {NoAuthConfig}
    \cup [isNil : {FALSE}, IdentityToken : {"", "token"}, Username : {"", "user"}]

\* authConfig is the call's argument, client its http client ("": nil); v2, logged
\* and searched are history: what became of the V2 attempt ("none": the call has not
\* come to it), the Errorf lines the call wrote, and whether SearchRepositories ran.
NoTask == [pc |-> "none", term |-> EmptyString, indexName |-> EmptyString, err |-> Nil,
           hits |-> <<>>, newOuts |-> <<>>, n |-> 0, k |-> 0,
           authConfig |-> NoAuthConfig, client |-> "", v2 |-> "none", logged |-> 0,
           searched |-> FALSE]

\* What the provider that call t asks holds, best match first: the providers hold
\* the same results in different orders.
Catalogue(t) == [k \in 1..MaxHits |-> Hits[((t + k) % Len(Hits)) + 1]]

\* What SearchRepositories can answer to call t: no result, or the first results of
\* the catalogue, as many as the limit allows.
Responses(t) == {SubSeq(Catalogue(t), 1, n) : n \in 0..MaxHits}

\* The item searchTerm builds from one provider result of the index indexName.
ItemOf(indexName, result) ==
    LET split == splitReposSearchTerm(result.Name, FALSE)
    IN  IF split.indexName # EmptyString
        THEN SearchResultExt(indexName, split.indexName, result.StarCount,
                             split.remoteName, result.Description)
        ELSE SearchResultExt(indexName, indexName, result.StarCount,
                             result.Name, result.Description)

\* searchTerm returns e: its locals are gone (hits and indexName stay as history).
TaskReturn(t, e) ==
    task' = [task EXCEPT ![t].pc = "exit", ![t].err = e, ![t].newOuts = <<>>,
                         ![t].n = 0, ![t].k = 0, ![t].client = ""]

\* validateNoScheme refuses the term.
TaskInvalid(t) ==
    /\ ~panicked
    /\ UNCHANGED <<parentVars, authVars, configVars, refVars>>
    /\ task[t].pc = "start"
    /\ ~validateNoScheme(task[t].term)
    /\ TaskReturn(t, Err("validateNoScheme", t))
    /\ UNCHANGED <<results, mu, panicked, lockCount>>

\* The term is split and s.mu is acquired.
TaskLock(t) ==
    /\ ~panicked
    /\ UNCHANGED <<parentVars, authVars, configVars, refVars>>
    /\ task[t].pc = "start"
    /\ validateNoScheme(task[t].term)
    /\ mu = 0
    /\ mu' = t + 1
    /\ lockCount' = lockCount + 1
    /\ task' = [task EXCEPT ![t].pc = "locked",
                            ![t].indexName = splitReposSearchTerm(task[t].term, TRUE).indexName]
    /\ UNCHANGED <<results, panicked>>

\* newIndexInfo under a lock that is kept for the rest of the call.
TaskUnlockKeepsLock(t) ==
    /\ ~panicked
    /\ UNCHANGED <<parentVars, authVars, configVars, refVars>>
    /\ task[t].pc = "locked"
    /\ mu = t + 1
    /\ \E ok \in BOOLEAN :
        IF ok THEN task' = [task EXCEPT ![t].pc = "net"]
        ELSE TaskReturn(t, Err("newIndexInfo", t))
    /\ UNCHANGED <<results, mu, panicked, lockCount>>

\* newIndexInfo under the lock, s.mu.Unlock(), and the return when it failed.
TaskUnlock(t) ==
    /\ ~panicked
    /\ UNCHANGED <<parentVars, authVars, configVars, refVars>>
    /\ task[t].pc = "locked"
    /\ mu = t + 1
    /\ mu' = 0
    /\ \E ok \in BOOLEAN :
        IF ok THEN task' = [task EXCEPT ![t].pc = "net"]
        ELSE TaskReturn(t, Err("newIndexInfo", t))
    /\ UNCHANGED <<results, panicked, lockCount>>

\* Everything searchTerm does over the network: the V1 endpoint, the client and its
\* authorization, the provider search. Any of them may fail; a search without
\* results returns nil at once.
TaskNet(t) ==
    /\ ~panicked
    /\ UNCHANGED <<parentVars, authVars, configVars, refVars>>
    /\ task[t].pc = "net"
    /\ \/ TaskReturn(t, Err("network", t))
       \/ \E resp \in Responses(t) :
            IF Len(resp) < 1 THEN TaskReturn(t, Nil)
            ELSE task' = [task EXCEPT ![t].pc = "alloc", ![t].hits = resp]
    /\ UNCHANGED <<results, mu, panicked, lockCount>>

\* The steps TaskNet takes as one, each on its own.

\* authConfig != nil && authConfig.IdentityToken != "" && authConfig.Username != ""
wantsV2(authConfig) ==
    ~authConfig.isNil /\ authConfig.IdentityToken # "" /\ authConfig.Username # ""

\* NewV1Endpoint, and the test that selects the V2 attempt.
TaskEndpoint(t) ==
    /\ ~panicked
    /\ UNCHANGED <<parentVars, authVars, configVars, refVars>>
    /\ task[t].pc = "net"
    /\ \/ TaskReturn(t, Err("NewV1Endpoint", t))
       \/ task' = [task EXCEPT
                      ![t].pc = IF wantsV2(task[t].authConfig) THEN "v2auth" ELSE "authorize",
                      ![t].v2 = IF wantsV2(task[t].authConfig) THEN "pending" ELSE "skipped"]
    /\ UNCHANGED <<results, mu, panicked, lockCount>>

\* The V2 attempt whose every failure ends the call.
TaskV2AuthStrict(t) ==
    /\ ~panicked
    /\ UNCHANGED <<parentVars, authVars, configVars, refVars>>
    /\ task[t].pc = "v2auth"
    /\ \/ task' = [task EXCEPT ![t].pc = "exit", ![t].err = Err("fallbackError", t),
                               ![t].v2 = "fallback"]
       \/ task' = [task EXCEPT ![t].pc = "exit", ![t].err = Err("fatal", t),
                               ![t].v2 = "fatal"]
       \/ task' = [task EXCEPT ![t].pc = "search", ![t].client = "v2", ![t].v2 = "found"]
       \/ task' = [task EXCEPT ![t].pc = "authorize", ![t].v2 = "notfound"]
    /\ UNCHANGED <<results, mu, panicked, lockCount>>

\* v2AuthHTTPClient and what follows it: a fallbackError is logged and leaves client
\* nil, another error is returned, and a V2 client that was found becomes client.
TaskV2Auth(t) ==
    /\ ~panicked
    /\ UNCHANGED <<parentVars, authVars, configVars, refVars>>
    /\ task[t].pc = "v2auth"
    /\ \/ task' = [task EXCEPT ![t].pc = "authorize", ![t].v2 = "fallback",
                               ![t].logged = task[t].logged + 1]
       \/ task' = [task EXCEPT ![t].pc = "exit", ![t].err = Err("fatal", t),
                               ![t].v2 = "fatal"]
       \/ task' = [task EXCEPT ![t].pc = "search", ![t].client = "v2", ![t].v2 = "found"]
       \/ task' = [task EXCEPT ![t].pc = "authorize", ![t].v2 = "notfound"]
    /\ UNCHANGED <<results, mu, panicked, lockCount>>

\* if client == nil: the client of the V1 endpoint, and authorizeClient.
TaskAuthorize(t) ==
    /\ ~panicked
    /\ UNCHANGED <<parentVars, authVars, configVars, refVars>>
    /\ task[t].pc = "authorize"
    /\ \/ TaskReturn(t, Err("authorizeClient", t))
       \/ task' = [task EXCEPT ![t].pc = "search", ![t].client = "v1"]
    /\ UNCHANGED <<results, mu, panicked, lockCount>>

\* newSession and SearchRepositories: an error or no result ends the call.
TaskSearch(t) ==
    /\ ~panicked
    /\ UNCHANGED <<parentVars, authVars, configVars, refVars>>
    /\ task[t].pc = "search"
    /\ \/ task' = [task EXCEPT ![t].pc = "exit", ![t].err = Err("SearchRepositories", t),
                               ![t].searched = TRUE, ![t].client = ""]
       \/ \E resp \in Responses(t) :
            IF Len(resp) < 1
            THEN task' = [task EXCEPT ![t].pc = "exit", ![t].err = Nil,
                                      ![t].searched = TRUE, ![t].client = ""]
            ELSE task' = [task EXCEPT ![t].pc = "alloc", ![t].hits = resp,
                                      ![t].searched = TRUE, ![t].client = ""]
    /\ UNCHANGED <<results, mu, panicked, lockCount>>

\* newOuts := make(..., len(*outs)+len(results.Results))
TaskAlloc(t) ==
    /\ ~panicked
    /\ UNCHANGED <<parentVars, authVars, configVars, refVars>>
    /\ task[t].pc = "alloc"
    /\ task' = [task EXCEPT ![t].pc = "range",
                            ![t].newOuts = [x \in 1..(Len(results) + Len(task[t].hits))
                                              |-> ZeroResult]]
    /\ UNCHANGED <<results, mu, panicked, lockCount>>

\* for i := range *outs: the range expression is evaluated once, here.
TaskRange(t) ==
    /\ ~panicked
    /\ UNCHANGED <<parentVars, authVars, configVars, refVars>>
    /\ task[t].pc = "range"
    /\ task' = [task EXCEPT ![t].pc = IF Len(results) = 0 THEN "place" ELSE "copy",
                            ![t].n = Len(results), ![t].k = 1]
    /\ UNCHANGED <<results, mu, panicked, lockCount>>

\* newOuts[i] = (*outs)[i]: both index expressions are bounds-checked, and *outs is
\* read anew.
TaskCopy(t) ==
    /\ ~panicked
    /\ UNCHANGED <<parentVars, authVars, configVars, refVars>>
    /\ task[t].pc = "copy"
    /\ LET k == task[t].k
       IN  IF k > Len(results) \/ k > Len(task[t].newOuts)
           THEN /\ panicked' = TRUE
                /\ UNCHANGED task
           ELSE /\ task' = [task EXCEPT ![t].newOuts[k] = results[k],
                                        ![t].k = IF k = task[t].n THEN 1 ELSE k + 1,
                                        ![t].pc = IF k = task[t].n THEN "place" ELSE "copy"]
                /\ UNCHANGED panicked
    /\ UNCHANGED <<results, mu, lockCount>>

\* newOuts[len(*outs)+i] = item: len(*outs) is read anew for every result.
TaskPlace(t) ==
    /\ ~panicked
    /\ UNCHANGED <<parentVars, authVars, configVars, refVars>>
    /\ task[t].pc = "place"
    /\ LET k == task[t].k
           at == Len(results) + k
       IN  IF at > Len(task[t].newOuts)
           THEN /\ panicked' = TRUE
                /\ UNCHANGED task
           ELSE /\ task' = [task EXCEPT
                              ![t].newOuts[at] = ItemOf(task[t].indexName, task[t].hits[k]),
                              ![t].k = k + 1,
                              ![t].pc = IF k = Len(task[t].hits) THEN "write" ELSE "place"]
                /\ UNCHANGED panicked
    /\ UNCHANGED <<results, mu, lockCount>>

\* *outs = newOuts; return nil. The calls race on *outs: nothing orders this write
\* with the reads and writes of the other goroutines. A read sees the slice some
\* write stored whole; the lost and the out-of-range outcomes arise from that alone.
TaskWrite(t) ==
    /\ ~panicked
    /\ UNCHANGED <<parentVars, authVars, configVars, refVars>>
    /\ task[t].pc = "write"
    /\ results' = task[t].newOuts
    /\ TaskReturn(t, Nil)
    /\ UNCHANGED <<mu, panicked, lockCount>>

\* ------------------------------------------------------------------ Search

SearchReturn(res, e) ==
    /\ searchPc' = "returned"
    /\ searchRet' = [results |-> res, err |-> e]

\* The test for no query registries that no list satisfies.
NoQueryRegistriesNever == Len(queryRegistries) < 0

\* len(QueryRegistries()) < 1
NoQueryRegistries == Len(queryRegistries) < 1

\* Search up to its three-way branch: the qualified term is searched inline, an
\* unqualified one fails without query registries and is fanned out otherwise.
SearchBegin ==
    /\ ~panicked
    /\ UNCHANGED <<authVars, configVars, refVars>>
    /\ searchPc = "idle"
    /\ \E tm \in Terms, ni \in BOOLEAN :
        /\ term' = tm
        /\ noIndex' = ni
        /\ results' = <<>>
        /\ IF isReposSearchTermFullyQualified(tm)
           THEN /\ searchPc' = "single"
                /\ task' = [task EXCEPT ![0] = [NoTask EXCEPT !.pc = "start", !.term = tm]]
                /\ UNCHANGED searchRet
           ELSE IF NoQueryRegistries
           THEN /\ SearchReturn(NilResults, Err("NoConfiguredRepository", 0))
                /\ UNCHANGED task
           ELSE /\ searchPc' = "spawn"
                /\ UNCHANGED <<task, searchRet>>
    /\ UNCHANGED <<queryRegistries, spawned, received, searchErr, successfulSearch, mu,
                   panicked, lastReceived, errLogged, lockCount>>

\* The term goroutine i searches for: the bare term for the first registry, r/term
\* for the others.
SearchTermFor(i, r, tm) == IF i > 0 THEN r \o <<"/">> \o tm ELSE tm

\* One iteration of the loop of go statements.
SearchSpawn ==
    /\ ~panicked
    /\ UNCHANGED <<authVars, configVars, refVars>>
    /\ searchPc = "spawn"
    /\ spawned < Len(queryRegistries)
    /\ LET r == queryRegistries[spawned + 1]
           tmp == SearchTermFor(spawned, r, term)
       IN  task' = [task EXCEPT ![spawned + 1] = [NoTask EXCEPT !.pc = "start", !.term = tmp]]
    /\ spawned' = spawned + 1
    /\ UNCHANGED <<queryRegistries, searchPc, term, noIndex, results, received, searchErr,
                   successfulSearch, searchRet, mu, panicked, lastReceived, errLogged,
                   lockCount>>

\* The loop of go statements ends; the receive loop begins.
SearchSpawned ==
    /\ ~panicked
    /\ UNCHANGED <<authVars, configVars, refVars>>
    /\ searchPc = "spawn"
    /\ spawned >= Len(queryRegistries)
    /\ searchPc' = "recv"
    /\ UNCHANGED <<queryRegistries, term, noIndex, results, spawned, received, searchErr,
                   successfulSearch, searchRet, mu, task, panicked, lastReceived,
                   errLogged, lockCount>>

\* The receive loop letting the last completion alone decide successfulSearch.
SearchReceiveLastDecides(t) ==
    /\ ~panicked
    /\ UNCHANGED <<authVars, configVars, refVars>>
    /\ searchPc = "recv"
    /\ received < Len(queryRegistries)
    /\ t >= 1
    /\ task[t].pc = "exit"
    /\ task' = [task EXCEPT ![t].pc = "done"]
    /\ searchErr' = task[t].err
    /\ successfulSearch' = (task[t].err = Nil)
    /\ errLogged' = IF task[t].err = Nil THEN errLogged ELSE errLogged + 1
    /\ received' = received + 1
    /\ lastReceived' = t
    /\ UNCHANGED <<queryRegistries, searchPc, term, noIndex, results, spawned, searchRet,
                   mu, panicked, lockCount>>

\* err = <-resultChan, meeting the c <- err of goroutine t (resultChan is unbuffered),
\* and the body of the receive loop.
SearchReceive(t) ==
    /\ ~panicked
    /\ UNCHANGED <<authVars, configVars, refVars>>
    /\ searchPc = "recv"
    /\ received < Len(queryRegistries)
    /\ t >= 1
    /\ task[t].pc = "exit"
    /\ task' = [task EXCEPT ![t].pc = "done"]
    /\ searchErr' = task[t].err
    /\ IF task[t].err = Nil
       THEN successfulSearch' = TRUE /\ UNCHANGED errLogged
       ELSE errLogged' = errLogged + 1 /\ UNCHANGED successfulSearch
    /\ received' = received + 1
    /\ lastReceived' = t
    /\ UNCHANGED <<queryRegistries, searchPc, term, noIndex, results, spawned, searchRet,
                   mu, panicked, lockCount>>

\* After the receive loop: without a successful search, return nil, err.
SearchJoined ==
    /\ ~panicked
    /\ UNCHANGED <<authVars, configVars, refVars>>
    /\ searchPc = "recv"
    /\ received >= Len(queryRegistries)
    /\ IF ~successfulSearch
       THEN SearchReturn(NilResults, searchErr)
       ELSE searchPc' = "rank" /\ UNCHANGED searchRet
    /\ UNCHANGED <<queryRegistries, term, noIndex, results, spawned, received, searchErr,
                   successfulSearch, mu, task, panicked, lastReceived, errLogged, lockCount>>

\* The inline searchTerm call of a qualified term returns.
SearchSingleDone ==
    /\ ~panicked
    /\ UNCHANGED <<authVars, configVars, refVars>>
    /\ searchPc = "single"
    /\ task[0].pc = "exit"
    /\ task' = [task EXCEPT ![0].pc = "done"]
    /\ IF task[0].err # Nil
       THEN SearchReturn(NilResults, task[0].err)
       ELSE searchPc' = "rank" /\ UNCHANGED searchRet
    /\ UNCHANGED <<queryRegistries, term, noIndex, results, spawned, received, searchErr,
                   successfulSearch, mu, panicked, lastReceived, errLogged, lockCount>>

\* The tail of Search: sort, drop the duplicates when noIndex, return results, nil.
SearchRank ==
    /\ ~panicked
    /\ UNCHANGED <<authVars, configVars, refVars>>
    /\ searchPc = "rank"
    /\ \E sorted \in Sort(~noIndex, results) :
        /\ results' = sorted
        /\ SearchReturn(IF noIndex THEN removeSearchDuplicates(sorted) ELSE Slice(sorted),
                        Nil)
    /\ UNCHANGED <<queryRegistries, term, noIndex, spawned, received, searchErr,
                   successfulSearch, mu, task, panicked, lastReceived, errLogged, lockCount>>

\* ------------------------------------------------------------------ configuration

Callers == 1..MaxCallers

\* s.mu while caller p holds it (searchTerm call t holds it as 1 + t).
HeldBy(p) == 0 - p

\* The entries of the lists given to the loads: a CIDR, a host name, two mirror
\* URLs and an entry that is neither a CIDR nor a host name nor a URL.
CIDREntry == "10.0.0.0/8"
HostEntry == "reg.h"
MirrorEntries == {"https://m.1", "https://m.2"}
BadEntry == "bad entry"

RegistryLists == SeqsUpTo({CIDREntry, HostEntry, BadEntry}, MaxEntries)
MirrorLists == SeqsUpTo(MirrorEntries \cup {BadEntry}, MaxEntries)

Elements(list) == {list[i] : i \in DOMAIN list}

\* The validation of the loads: some entry of the list is malformed.
Malformed(list) == BadEntry \in Elements(list)

\* The host names given to the readers: the official registry, the host and an
\* address of the CIDR an insecure-registries list can name, a loopback address,
\* a host no list names, and a malformed host name.
DefaultHost == "docker.io"
CIDRHost == "10.0.0.1"
LoopbackHost == "127.0.0.1"
PlainHost == "reg.s"
BadHost == "bad host"
Hosts == {DefaultHost, HostEntry, CIDRHost, LoopbackHost, PlainHost, BadHost}

\* s.config before anything is loaded.
ZeroConfig ==
    [AllowNondistributableArtifactsCIDRs |-> {},
     AllowNondistributableArtifactsHostnames |-> {},
     InsecureRegistryCIDRs |-> {},
     IndexConfigs |-> {},
     Mirrors |-> <<>>,
     V2Only |-> FALSE]

\* The configurations newServiceConfig(options) builds from options that name no
\* registry and no mirror: V2Only or not. The loads lead to the others.
StartConfigs == {[ZeroConfig EXCEPT !.V2Only = v] : v \in BOOLEAN}

\* isSecureIndex(config, hostname): the official registry is always secure; another
\* host is insecure when an index override or an insecure CIDR names it, or when it
\* is a loopback address.
isSecureIndex(cfg, hostname) ==
    \/ hostname = DefaultHost
    \/ ~ \/ hostname \in cfg.IndexConfigs
         \/ hostname = CIDRHost /\ CIDREntry \in cfg.InsecureRegistryCIDRs
         \/ hostname = LoopbackHost

\* newTLSConfig(hostname, isSecure): strict for a secure host, without verification
\* for an insecure one; it fails on a malformed host name.
newTLSConfig(hostname, isSecure) ==
    IF hostname = BadHost
    THEN [InsecureSkipVerify |-> FALSE, err |-> Err("InvalidHostname", 0)]
    ELSE [InsecureSkipVerify |-> ~isSecure, err |-> Nil]

tlsConfig(cfg, hostname) == newTLSConfig(hostname, isSecureIndex(cfg, hostname))

\* An APIEndpoint of the lookups.
Endpoint(mirror, scheme, host, version, secure) ==
    [Mirror |-> mirror, Scheme |-> scheme, Host |-> host, Version |-> version,
     Official |-> (host = DefaultHost), Secure |-> secure]

\* lookupV2Endpoints: one V2 endpoint per configured mirror, then the V2 endpoint of
\* the host itself.
lookupV2Endpoints(cfg, hostname) ==
    LET tls == tlsConfig(cfg, hostname)
        secure == isSecureIndex(cfg, hostname)
    IN  IF tls.err # Nil THEN [endpoints |-> <<>>, err |-> tls.err]
        ELSE [endpoints |->
                [i \in 1..Len(cfg.Mirrors) |->
                    Endpoint(TRUE, "https", cfg.Mirrors[i], APIVersion2, TRUE)]
                \o <<Endpoint(FALSE, "https", hostname, APIVersion2, secure)>>,
              err |-> Nil]

\* lookupV1Endpoints: the legacy endpoint over HTTPS, then over HTTP for an insecure
\* host only.
lookupV1Endpoints(cfg, hostname) ==
    LET tls == tlsConfig(cfg, hostname)
        secure == isSecureIndex(cfg, hostname)
    IN  IF tls.err # Nil THEN [endpoints |-> <<>>, err |-> tls.err]
        ELSE [endpoints |->
                <<Endpoint(FALSE, "https", hostname, APIVersion1, secure)>>
                \o (IF secure THEN <<>>
                    ELSE <<Endpoint(FALSE, "http", hostname, APIVersion1, secure)>>),
              err |-> Nil]

\* lookupEndpoints with the legacy endpoints first.
lookupEndpointsLegacyFirst(cfg, hostname) ==
    LET v2 == lookupV2Endpoints(cfg, hostname)
        legacy == lookupV1Endpoints(cfg, hostname)
    IN  IF v2.err # Nil THEN [endpoints |-> <<>>, err |-> v2.err]
        ELSE IF cfg.V2Only THEN v2
        ELSE IF legacy.err # Nil THEN [endpoints |-> <<>>, err |-> legacy.err]
        ELSE [endpoints |-> legacy.endpoints \o v2.endpoints, err |-> Nil]

\* lookupEndpoints: the V2 endpoints, and unless the service is V2-only the legacy
\* endpoints after them.
lookupEndpoints(cfg, hostname) ==
    LET v2 == lookupV2Endpoints(cfg, hostname)
        legacy == lookupV1Endpoints(cfg, hostname)
    IN  IF v2.err # Nil THEN [endpoints |-> <<>>, err |-> v2.err]
        ELSE IF cfg.V2Only THEN v2
        ELSE IF legacy.err # Nil THEN [endpoints |-> <<>>, err |-> legacy.err]
        ELSE [endpoints |-> v2.endpoints \o legacy.endpoints, err |-> Nil]

\* The loop of LookupPushEndpoints without its test.
pushEndpointsUnfiltered(all) == all

\* The loop of LookupPushEndpoints: the endpoints that are not mirrors, in order.
pushEndpoints(all) ==
    IF all.err = Nil
    THEN [endpoints |-> SelectSeq(all.endpoints, LAMBDA e : ~e.Mirror), err |-> Nil]
    ELSE [endpoints |-> <<>>, err |-> all.err]

LoadOps == {"LoadAllowNondistributableArtifacts", "LoadMirrors", "LoadInsecureRegistries"}
ReadOps == {"ServiceConfig", "ResolveRepository", "TLSConfig",
            "LookupPullEndpoints", "LookupPushEndpoints"}

\* A caller that is in no call.
NoCall ==
    [pc |-> "idle", op |-> "", arg |-> <<>>, host |-> "", before |-> ZeroConfig,
     seen |-> ZeroConfig, endpoints |-> <<>>, secure |-> FALSE, err |-> Nil]

\* The deferred s.mu.Unlock() and the return of a call: the caller takes the result
\* away.
CallUnlock(p) ==
    /\ ~panicked
    /\ call[p].pc = "unlock"
    /\ mu' = 0
    /\ call' = [call EXCEPT ![p] = NoCall]
    /\ UNCHANGED <<config, committed, authVars, searchVarsButMu, refVars>>

\* A load that does not lock s.mu.
LoadLockSkipped(p, ops) ==
    /\ ~panicked
    /\ call[p].pc = "idle"
    /\ \E op \in ops \cap LoadOps :
        call' = [call EXCEPT ![p].pc = "validate", ![p].op = op, ![p].before = config]
    /\ UNCHANGED <<config, committed, authVars, searchVars, refVars>>

\* A caller calls one of the three loads, among ops: its s.mu.Lock() returns.
LoadLock(p, ops) ==
    /\ ~panicked
    /\ call[p].pc = "idle"
    /\ mu = 0
    /\ mu' = HeldBy(p)
    /\ \E op \in ops \cap LoadOps :
        call' = [call EXCEPT ![p].pc = "validate", ![p].op = op, ![p].before = config]
    /\ UNCHANGED <<config, committed, authVars, searchVarsButMu, refVars>>

\* s.config.Load...(list): every entry is validated before anything is replaced; a
\* malformed entry fails the load with InvalidConfigEntry.
LoadValidate(p) ==
    /\ ~panicked
    /\ call[p].pc = "validate"
    /\ \E list \in (IF call[p].op = "LoadMirrors" THEN MirrorLists ELSE RegistryLists) :
        call' = [call EXCEPT
                    ![p].arg = list,
                    ![p].err = IF Malformed(list) THEN Err("InvalidConfigEntry", 0) ELSE Nil,
                    ![p].pc = IF Malformed(list) THEN "unlock" ELSE "write1"]
    /\ UNCHANGED <<config, committed, authVars, searchVars, refVars>>

\* The first set or sequence of the load's target is replaced by the list's.
LoadWrite1(p) ==
    /\ ~panicked
    /\ call[p].pc = "write1"
    /\ LET list == call[p].arg
           cidrs == Elements(list) \cap {CIDREntry}
       IN  config' =
             CASE call[p].op = "LoadAllowNondistributableArtifacts" ->
                    [config EXCEPT !.AllowNondistributableArtifactsCIDRs = cidrs]
               [] call[p].op = "LoadInsecureRegistries" ->
                    [config EXCEPT !.InsecureRegistryCIDRs = cidrs]
               [] call[p].op = "LoadMirrors" ->
                    [config EXCEPT !.Mirrors = list]
    /\ call' = [call EXCEPT
                  ![p].pc = IF call[p].op = "LoadMirrors" THEN "unlock" ELSE "write2"]
    /\ committed' = IF call[p].op = "LoadMirrors" THEN config' ELSE committed
    /\ UNCHANGED <<authVars, searchVars, refVars>>

\* The second set of the load's target is replaced by the list's.
LoadWrite2(p) ==
    /\ ~panicked
    /\ call[p].pc = "write2"
    /\ LET hosts == Elements(call[p].arg) \cap {HostEntry}
       IN  config' =
             CASE call[p].op = "LoadAllowNondistributableArtifacts" ->
                    [config EXCEPT !.AllowNondistributableArtifactsHostnames = hosts]
               [] call[p].op = "LoadInsecureRegistries" ->
                    [config EXCEPT !.IndexConfigs = hosts]
    /\ call' = [call EXCEPT ![p].pc = "unlock"]
    /\ committed' = config'
    /\ UNCHANGED <<authVars, searchVars, refVars>>

\* A reader that does not lock s.mu.
ReadLockSkipped(p, ops) ==
    /\ ~panicked
    /\ call[p].pc = "idle"
    /\ \E op \in ops \cap ReadOps : call' = [call EXCEPT ![p].pc = "read", ![p].op = op]
    /\ UNCHANGED <<config, committed, authVars, searchVars, refVars>>

\* A caller calls ServiceConfig, ResolveRepository, TLSConfig or one of the two
\* lookups, among ops: its s.mu.Lock() returns.
ReadLock(p, ops) ==
    /\ ~panicked
    /\ call[p].pc = "idle"
    /\ mu = 0
    /\ mu' = HeldBy(p)
    /\ \E op \in ops \cap ReadOps : call' = [call EXCEPT ![p].pc = "read", ![p].op = op]
    /\ UNCHANGED <<config, committed, authVars, searchVarsButMu, refVars>>

\* ServiceConfig: the three appends of the CIDRs and host names.
ServiceConfigCopy(p) ==
    /\ ~panicked
    /\ call[p].pc = "read"
    /\ call[p].op = "ServiceConfig"
    /\ call' = [call EXCEPT
          ![p].pc = "read2",
          ![p].seen = [ZeroConfig EXCEPT
              !.AllowNondistributableArtifactsCIDRs =
                  config.AllowNondistributableArtifactsCIDRs,
              !.AllowNondistributableArtifactsHostnames =
                  config.AllowNondistributableArtifactsHostnames,
              !.InsecureRegistryCIDRs = config.InsecureRegistryCIDRs]]
    /\ UNCHANGED <<config, committed, authVars, searchVars, refVars>>

\* ServiceConfig: the copy of the index configurations and of the mirrors.
ServiceConfigCopyRest(p) ==
    /\ ~panicked
    /\ call[p].pc = "read2"
    /\ call' = [call EXCEPT
          ![p].pc = "unlock",
          ![p].seen = [call[p].seen EXCEPT
              !.IndexConfigs = config.IndexConfigs,
              !.Mirrors = config.Mirrors]]
    /\ UNCHANGED <<config, committed, authVars, searchVars, refVars>>

\* TLSConfig(hostname), and ResolveRepository(name) for a name of that host: both
\* classify the host under the configuration.
Classify(p) ==
    /\ ~panicked
    /\ call[p].pc = "read"
    /\ call[p].op \in {"TLSConfig", "ResolveRepository"}
    /\ \E hostname \in Hosts :
        LET tls == tlsConfig(config, hostname)
        IN  call' = [call EXCEPT
                ![p].pc = "unlock",
                ![p].host = hostname,
                ![p].seen = config,
                ![p].secure = ~tls.InsecureSkipVerify,
                ![p].err = tls.err]
    /\ UNCHANGED <<config, committed, authVars, searchVars, refVars>>

\* LookupPullEndpoints(hostname).
LookupPull(p) ==
    /\ ~panicked
    /\ call[p].pc = "read"
    /\ call[p].op = "LookupPullEndpoints"
    /\ \E hostname \in Hosts :
        LET all == lookupEndpoints(config, hostname)
        IN  call' = [call EXCEPT
                ![p].pc = "unlock",
                ![p].host = hostname,
                ![p].seen = config,
                ![p].endpoints = all.endpoints,
                ![p].err = all.err]
    /\ UNCHANGED <<config, committed, authVars, searchVars, refVars>>

\* LookupPushEndpoints calling the locked LookupPullEndpoints for its endpoints:
\* the second s.mu.Lock() of the same goroutine never returns.
LookupPushRelocks(p) ==
    /\ ~panicked
    /\ call[p].pc = "read"
    /\ call[p].op = "LookupPushEndpoints"
    /\ call' = [call EXCEPT ![p].pc = "relock"]
    /\ UNCHANGED <<config, committed, authVars, searchVars, refVars>>

\* LookupPushEndpoints(hostname).
LookupPush(p) ==
    /\ ~panicked
    /\ call[p].pc = "read"
    /\ call[p].op = "LookupPushEndpoints"
    /\ \E hostname \in Hosts :
        LET kept == pushEndpoints(lookupEndpoints(config, hostname))
        IN  call' = [call EXCEPT
                ![p].pc = "unlock",
                ![p].host = hostname,
                ![p].seen = config,
                ![p].endpoints = kept.endpoints,
                ![p].err = kept.err]
    /\ UNCHANGED <<config, committed, authVars, searchVars, refVars>>

\* ------------------------------------------------------------------ references

\* The official namespace, the literal "library" of splitDockerDomain and
\* trimDefaultRegistry.
Library == <<"l", "i", "b", "r", "a", "r", "y">>

\* registry.DefaultRegistries: the configured default registries, in order.
DefaultRegistries == <<RegistryName(1), IndexServerName>>

UpperCase == {"U"}

\* strings.ToLower
ToLower(s) == [k \in DOMAIN s |-> IF s[k] = "U" THEN "u" ELSE s[k]]

\* strings.LastIndex(s, c) for a one-character c, 1-based; 0 when c does not occur.
LastIndexOfChar(s, c) ==
    IF \E k \in 1..Len(s) : s[k] = c
    THEN CHOOSE k \in 1..Len(s) : s[k] = c /\ \A j \in (k + 1)..Len(s) : s[j] # c
    ELSE 0

\* strings.Index(s, sub), 1-based; 0 when sub does not occur.
IndexOfSub(s, sub) ==
    LET At(k) == SubSeq(s, k, k + Len(sub) - 1) = sub
        Starts == {k \in 1..(Len(s) - Len(sub) + 1) : At(k)}
    IN  IF Starts = {} THEN 0 ELSE CHOOSE k \in Starts : \A j \in Starts : k <= j

\* strings.Replace(s, old, new, 1): the first occurrence only.
Replace1(s, old, new) ==
    LET k == IndexOfSub(s, old)
    IN  IF k = 0 THEN s
        ELSE SubSeq(s, 1, k - 1) \o new \o SubSeq(s, k + Len(old), Len(s))

\* anchoredIdentifierRegexp: exactly 64 hexadecimal characters.
IsIdentifier(s) ==
    /\ Len(s) = 64
    /\ \A k \in 1..Len(s) :
           s[k] \in {"0", "1", "2", "3", "4", "5", "6", "7", "8", "9",
                     "a", "b", "c", "d", "e", "f"}

\* A reference with a name: its repository name and its tag ("" for none).
Named(name, tag) == [isNil |-> FALSE, name |-> name, tag |-> tag]
NoNamed == [isNil |-> TRUE, name |-> EmptyString, tag |-> EmptyString]

\* The repository grammar: path components separated by single slashes, no
\* upper case.
ValidName(name) ==
    /\ name # EmptyString
    /\ name[1] # "/"
    /\ name[Len(name)] # "/"
    /\ \A k \in 1..(Len(name) - 1) : ~(name[k] = "/" /\ name[k + 1] = "/")
    /\ \A k \in 1..Len(name) : name[k] \notin UpperCase

\* reference.WithName
WithName(name) ==
    IF ValidName(name)
    THEN [ref |-> Named(name, EmptyString), err |-> Nil]
    ELSE [ref |-> NoNamed, err |-> Err("ErrReferenceInvalidFormat", 0)]

\* reference.Parse: the tag follows the last ':' after the last '/'.
Parse(s) ==
    LET colon == LastIndexOfChar(s, ":")
        tagSep == IF colon > LastIndexOfChar(s, "/") THEN colon ELSE 0
        name == IF tagSep = 0 THEN s ELSE SubSeq(s, 1, tagSep - 1)
        tag == IF tagSep = 0 THEN EmptyString ELSE SubSeq(s, tagSep + 1, Len(s))
    IN  IF ValidName(name) /\ (tagSep # 0 => tag # EmptyString)
        THEN [ref |-> Named(name, tag), err |-> Nil]
        ELSE [ref |-> NoNamed, err |-> Err("ErrReferenceInvalidFormat", 0)]

\* ref.String() of a reference freshly parsed, which reference.FamiliarString
\* returns.
String(ref) ==
    IF ref.tag = EmptyString THEN ref.name ELSE ref.name \o <<":">> \o ref.tag

\* reference.SplitHostname: the name before and after its first '/'.
SplitHostname(ref) ==
    LET i == IndexOfChar(ref.name, "/")
    IN  IF i = 0 THEN [hostname |-> EmptyString, remainder |-> ref.name]
        ELSE [hostname |-> SubSeq(ref.name, 1, i - 1),
              remainder |-> SubSeq(ref.name, i + 1, Len(ref.name))]

\* splitDockerDomain adding library/ whatever the depth of the remainder.
splitDockerDomainAnyDepth(name) ==
    LET i == IndexOfChar(name, "/")
        head == SubSeq(name, 1, i - 1)
        split ==
            IF \/ i = 0
               \/ /\ ~ContainsChar(head, ".")
                  /\ ~ContainsChar(head, ":")
                  /\ head # Localhost
            THEN [domain |-> EmptyString, remainder |-> name]
            ELSE [domain |-> head, remainder |-> SubSeq(name, i + 1, Len(name))]
    IN  IF \E k \in DOMAIN DefaultRegistries :
               split.domain = DefaultRegistries[k] \/ split.domain = EmptyString
        THEN [split EXCEPT !.remainder = Library \o <<"/">> \o @]
        ELSE split

\* splitDockerDomain: the domain before the first '/', when it looks like one,
\* and library/ before a single-segment remainder of a default registry.
splitDockerDomain(name) ==
    LET i == IndexOfChar(name, "/")
        head == SubSeq(name, 1, i - 1)
        split ==
            IF \/ i = 0
               \/ /\ ~ContainsChar(head, ".")
                  /\ ~ContainsChar(head, ":")
                  /\ head # Localhost
            THEN [domain |-> EmptyString, remainder |-> name]
            ELSE [domain |-> head, remainder |-> SubSeq(name, i + 1, Len(name))]
    IN  IF \E k \in DOMAIN DefaultRegistries :
               /\ split.domain = DefaultRegistries[k] \/ split.domain = EmptyString
               /\ ~ContainsChar(split.remainder, "/")
        THEN [split EXCEPT !.remainder = Library \o <<"/">> \o @]
        ELSE split

ParseNormalizedNamed(s) ==
    IF IsIdentifier(s)
    THEN [ref |-> NoNamed, err |-> Err("invalid repository name", 0)]
    ELSE LET split == splitDockerDomain(s)
             tagSep == IndexOfChar(split.remainder, ":")
             remoteName == IF tagSep > 0 THEN SubSeq(split.remainder, 1, tagSep - 1)
                           ELSE split.remainder
             sn == IF split.domain = EmptyString THEN split.remainder
                   ELSE split.domain \o <<"/">> \o split.remainder
         IN  IF ToLower(remoteName) # remoteName
             THEN [ref |-> NoNamed, err |-> Err("repository name must be lowercase", 0)]
             ELSE Parse(sn)

\* trimDefaultRegistry: r is the default registry equal to the domain.
trimDefaultRegistry(s) ==
    LET domain == splitDockerDomain(s).domain
    IN  IF \E k \in DOMAIN DefaultRegistries : domain = DefaultRegistries[k]
        THEN IF IndexOfSub(s, domain \o <<"/">> \o Library) # 0
             THEN Replace1(s, domain \o <<"/">> \o Library \o <<"/">>, EmptyString)
             ELSE Replace1(s, domain \o <<"/">>, EmptyString)
        ELSE s

FamiliarString(ref) == trimDefaultRegistry(String(ref))

isValidHostname(hostname) ==
    /\ hostname # EmptyString
    /\ ~ContainsChar(hostname, "/")
    /\ \/ ContainsChar(hostname, ".")
       \/ ContainsChar(hostname, ":")
       \/ hostname = Localhost

SubstituteReferenceName(ref, reposName) ==
    LET reposNameRef == WithName(reposName)
    IN  IF reposNameRef.err # Nil THEN reposNameRef
        ELSE IF ref.tag # EmptyString
             THEN [ref |-> Named(reposName, ref.tag), err |-> Nil]
             ELSE reposNameRef

SplitReposName(reposName) ==
    LET split == SplitHostname(reposName)
    IN  IF ~isValidHostname(split.hostname)
        THEN [indexName |-> EmptyString, remoteName |-> reposName, err |-> Nil]
        ELSE LET remoteName == WithName(split.remainder)
             IN  [indexName |-> split.hostname, remoteName |-> remoteName.ref,
                  err |-> remoteName.err]

\* QualifyUnqualifiedReference prefixing the index name whatever the reference.
QualifyUnqualifiedReferenceAlways(ref, indexName) ==
    IF ~isValidHostname(indexName)
    THEN [ref |-> NoNamed, err |-> Err("Invalid hostname", 0)]
    ELSE LET split == SplitReposName(ref)
         IN  IF split.err # Nil THEN [ref |-> NoNamed, err |-> split.err]
             ELSE SubstituteReferenceName(ref, indexName \o <<"/">> \o ref.name)

QualifyUnqualifiedReference(ref, indexName) ==
    IF ~isValidHostname(indexName)
    THEN [ref |-> NoNamed, err |-> Err("Invalid hostname", 0)]
    ELSE LET split == SplitReposName(ref)
         IN  IF split.err # Nil THEN [ref |-> NoNamed, err |-> split.err]
             ELSE IF split.indexName = EmptyString
                  THEN SubstituteReferenceName(
                           ref, indexName \o <<"/">> \o split.remoteName.name)
                  ELSE [ref |-> ref, err |-> Nil]

\* --- the inputs

\* The path segments of the raw names.
Segments == {<<"a">>, Library, Library \o <<"b">>, <<"U">>}

\* The paths of the raw names: up to MaxSegments segments.
Paths == SeqsUpTo(Segments, MaxSegments) \ {<<>>}

RECURSIVE Join(_)
\* strings.Join(path, "/")
Join(path) ==
    IF Len(path) = 1 THEN path[1]
    ELSE path[1] \o <<"/">> \o Join(Tail(path))

\* The domains a raw name is written with: none, the default registries, others.
RawDomains == {EmptyString, IndexServerName, RegistryName(1), RegistryName(2), Localhost}

RawTags == {EmptyString, <<"1">>}

\* The raw name written with a domain, a path and a tag.
Raw(domain, path, tag) ==
    (IF domain = EmptyString THEN EmptyString ELSE domain \o <<"/">>)
        \o Join(path)
        \o (IF tag = EmptyString THEN EmptyString ELSE <<":">> \o tag)

\* A raw name that reads as an image identifier.
Identifier == [k \in 1..64 |-> "a"]

RawNames ==
    {Raw(d, p, t) : d \in RawDomains, p \in Paths, t \in RawTags} \cup {Identifier}

\* The index names a reference is qualified with, by the hostname predicate.
ValidIndexNames == {IndexServerName, RegistryName(1), RegistryName(2), Localhost}
InvalidIndexNames == {EmptyString, <<"a">>, RegistryName(1) \o <<"/", "a">>}
IndexNames == ValidIndexNames \cup InvalidIndexNames

\* --- one run: parse the raw name, qualify it, qualify it again, print it

NoRef ==
    [pc |-> "idle", raw |-> EmptyString, indexName |-> EmptyString, did |-> {},
     named |-> NoNamed, err |-> Nil,
     qualified |-> NoNamed, qualifyErr |-> Nil,
     requalified |-> NoNamed, requalifyErr |-> Nil,
     familiar |-> EmptyString, trimmed |-> EmptyString]

RefParse ==
    /\ refRun.pc = "parse"
    /\ LET r == ParseNormalizedNamed(refRun.raw)
       IN  refRun' = [refRun EXCEPT !.named = r.ref, !.err = r.err,
                                 !.did = @ \cup {"parse"},
                                 !.pc = IF r.err = Nil THEN "qualify" ELSE "done"]
    /\ UNCHANGED <<authVars, searchVars, configVars>>

RefQualify ==
    /\ refRun.pc = "qualify"
    /\ LET r == QualifyUnqualifiedReference(refRun.named, refRun.indexName)
       IN  refRun' = [refRun EXCEPT !.qualified = r.ref, !.qualifyErr = r.err,
                                 !.did = @ \cup {"qualify"},
                                 !.pc = IF r.err = Nil THEN "requalify" ELSE "done"]
    /\ UNCHANGED <<authVars, searchVars, configVars>>

RefRequalify ==
    /\ refRun.pc = "requalify"
    /\ LET r == QualifyUnqualifiedReference(refRun.qualified, refRun.indexName)
       IN  refRun' = [refRun EXCEPT !.requalified = r.ref, !.requalifyErr = r.err,
                                 !.did = @ \cup {"requalify"},
                                 !.pc = "familiar"]
    /\ UNCHANGED <<authVars, searchVars, configVars>>

RefFamiliar ==
    /\ refRun.pc = "familiar"
    /\ refRun' = [refRun EXCEPT !.familiar = FamiliarString(refRun.named),
                                !.trimmed = FamiliarString(refRun.qualified),
                                !.did = @ \cup {"familiar"},
                                !.pc = "done"]
    /\ UNCHANGED <<authVars, searchVars, configVars>>

\* ------------------------------------------------------------------ specifications

AuthIdle ==
    /\ authPc = "idle"
    /\ authEndpoints = <<>>
    /\ authIdx = 1
    /\ authStatus = EmptyString
    /\ authToken = EmptyString
    /\ authErr = Nil
    /\ authRet = <<>>
    /\ authAttempts = <<>>
    /\ authLog = <<>>

\* A service on which no Search is running.
SearchIdle ==
    /\ searchPc = "idle"
    /\ term = EmptyString
    /\ noIndex = FALSE
    /\ results = <<>>
    /\ spawned = 0
    /\ received = 0
    /\ searchErr = Nil
    /\ successfulSearch = FALSE
    /\ searchRet = [results |-> NilResults, err |-> Nil]
    /\ mu = 0
    /\ task = [t \in Tasks |-> NoTask]
    /\ panicked = FALSE
    /\ lastReceived = 0
    /\ errLogged = 0
    /\ lockCount = 0

\* No caller is in a call and nothing has been loaded.
ConfigIdle ==
    /\ config = ZeroConfig
    /\ call = [p \in Callers |-> NoCall]
    /\ committed = ZeroConfig

\* No reference is being parsed.
RefIdle == refRun = NoRef

\* One call of Auth.
InitAuth == AuthIdle /\ RefIdle /\ SearchIdle /\ ConfigIdle /\ queryRegistries = <<>>

NextAuth ==
    \/ AuthBegin
    \/ AuthAttempt
    \/ AuthExhausted

SpecAuth == InitAuth /\ [][NextAuth]_vars

\* One call of Search, with its goroutines, under each configuration.
InitSearch ==
    AuthIdle /\ RefIdle /\ SearchIdle /\ ConfigIdle /\ queryRegistries \in QueryRegistryLists

NextSearch ==
    \/ SearchBegin
    \/ SearchSpawn
    \/ SearchSpawned
    \/ \E t \in Tasks : TaskInvalid(t)
    \/ \E t \in Tasks : TaskLock(t)
    \/ \E t \in Tasks : TaskUnlock(t)
    \/ \E t \in Tasks : TaskNet(t)
    \/ \E t \in Tasks : TaskAlloc(t)
    \/ \E t \in Tasks : TaskRange(t)
    \/ \E t \in Tasks : TaskCopy(t)
    \/ \E t \in Tasks : TaskPlace(t)
    \/ \E t \in Tasks : TaskWrite(t)
    \/ \E t \in Tasks : SearchReceive(t)
    \/ SearchJoined
    \/ SearchSingleDone
    \/ SearchRank

SpecSearch == InitSearch /\ [][NextSearch]_vars

\* The steps of Search itself, and the steps of searchTerm call t.
SearchNext ==
    \/ SearchBegin
    \/ SearchSpawn
    \/ SearchSpawned
    \/ \E t \in Tasks : SearchReceive(t)
    \/ SearchJoined
    \/ SearchSingleDone
    \/ SearchRank

TaskNext(t) ==
    \/ TaskInvalid(t)
    \/ TaskLock(t)
    \/ TaskUnlock(t)
    \/ TaskNet(t)
    \/ TaskAlloc(t)
    \/ TaskRange(t)
    \/ TaskCopy(t)
    \/ TaskPlace(t)
    \/ TaskWrite(t)

\* Search under the Go scheduler: a goroutine that can take a step eventually does.
FairSpecSearch ==
    /\ SpecSearch
    /\ WF_vars(SearchNext)
    /\ \A t \in Tasks : WF_vars(TaskNext(t))

\* The ranking on its own: Search after the join, with any collection of results.
RankStrings == {<<"r", ".", "1">>, <<"r", ".", "2">>}

\* The indexes of the results: the query registries and one that is not among them.
RankIndexes == RankStrings \cup {IndexServerName}

RankItems ==
    {SearchResultExt(i, r, st, n, d) :
        i \in RankIndexes, r \in RankStrings, st \in {0, 1},
        n \in {<<"a">>, <<"b">>}, d \in {EmptyString, <<"d">>}}

InitRank ==
    /\ AuthIdle
    /\ RefIdle
    /\ ConfigIdle
    /\ queryRegistries = [i \in 1..2 |-> RegistryName(i)]
    /\ searchPc = "rank"
    /\ term = <<"a">>
    /\ noIndex \in BOOLEAN
    /\ results \in SeqsUpTo(RankItems, MaxRankLen)
    /\ spawned = 2
    /\ received = 2
    /\ searchErr = Nil
    /\ successfulSearch = TRUE
    /\ searchRet = [results |-> NilResults, err |-> Nil]
    /\ mu = 0
    /\ task = [t \in Tasks |-> IF t \in 1..2 THEN [NoTask EXCEPT !.pc = "done"] ELSE NoTask]
    /\ panicked = FALSE
    /\ lastReceived = 2
    /\ errLogged = 0
    /\ lockCount = 2

NextRank == SearchRank

SpecRank == InitRank /\ [][NextRank]_vars

\* The term of a Search of one index.
QualifiedTerm == <<"r", ".", "1", "/", "a">>

\* A Search of the fully qualified term, called with authConfig, that has come to
\* its searchTerm call.
SearchSingle(authConfig) ==
    /\ searchPc = "single"
    /\ term = QualifiedTerm
    /\ noIndex = FALSE
    /\ results = <<>>
    /\ spawned = 0
    /\ received = 0
    /\ searchErr = Nil
    /\ successfulSearch = FALSE
    /\ searchRet = [results |-> NilResults, err |-> Nil]
    /\ mu = 0
    /\ task = [t \in Tasks |->
                IF t = 0 THEN [NoTask EXCEPT !.pc = "start", !.term = QualifiedTerm,
                                             !.authConfig = authConfig]
                ELSE NoTask]
    /\ panicked = FALSE
    /\ lastReceived = 0
    /\ errLogged = 0
    /\ lockCount = 0

\* The calls that load and read the configuration, MaxCallers of them at once, beside
\* the index resolution of a searchTerm call, from each configuration the service
\* starts with.
InitConfig ==
    /\ AuthIdle
    /\ RefIdle
    /\ SearchSingle(NoAuthConfig)
    /\ queryRegistries = <<>>
    /\ config \in StartConfigs
    /\ call = [p \in Callers |-> NoCall]
    /\ committed = config

NextConfig ==
    \/ \E t \in Tasks : TaskLock(t)
    \/ \E t \in Tasks : TaskUnlock(t)
    \/ \E p \in Callers : LoadLock(p, LoadOps)
    \/ \E p \in Callers : LoadValidate(p)
    \/ \E p \in Callers : LoadWrite1(p)
    \/ \E p \in Callers : LoadWrite2(p)
    \/ \E p \in Callers : ReadLock(p, ReadOps)
    \/ \E p \in Callers : ServiceConfigCopy(p)
    \/ \E p \in Callers : ServiceConfigCopyRest(p)
    \/ \E p \in Callers : Classify(p)
    \/ \E p \in Callers : LookupPull(p)
    \/ \E p \in Callers : LookupPush(p)
    \/ \E p \in Callers : CallUnlock(p)

SpecConfig == InitConfig /\ [][NextConfig]_vars

\* The steps a caller takes while it holds s.mu, its unlock included.
CallNext(p) ==
    \/ LoadValidate(p)
    \/ LoadWrite1(p)
    \/ LoadWrite2(p)
    \/ ServiceConfigCopy(p)
    \/ ServiceConfigCopyRest(p)
    \/ Classify(p)
    \/ LookupPull(p)
    \/ LookupPush(p)
    \/ CallUnlock(p)

\* The loads of the mutex runs: one that replaces a single sequence and one that
\* replaces two sets, behind the same Lock and deferred Unlock as the third.
LockOps == {"LoadMirrors", "LoadInsecureRegistries"}

\* Every kind of call that takes s.mu, MaxCallers callers at once beside the index
\* resolution of a searchTerm call. Auth takes it through LookupPushEndpoints
\* only, holding nothing.
InitLocks ==
    /\ AuthIdle
    /\ RefIdle
    /\ SearchSingle(NoAuthConfig)
    /\ queryRegistries = <<>>
    /\ config = ZeroConfig
    /\ call = [p \in Callers |-> NoCall]
    /\ committed = config

NextLocks ==
    \/ \E t \in Tasks : TaskLock(t)
    \/ \E t \in Tasks : TaskUnlock(t)
    \/ \E p \in Callers : LoadLock(p, LockOps)
    \/ \E p \in Callers : LoadValidate(p)
    \/ \E p \in Callers : LoadWrite1(p)
    \/ \E p \in Callers : LoadWrite2(p)
    \/ \E p \in Callers : ReadLock(p, ReadOps)
    \/ \E p \in Callers : ServiceConfigCopy(p)
    \/ \E p \in Callers : ServiceConfigCopyRest(p)
    \/ \E p \in Callers : Classify(p)
    \/ \E p \in Callers : LookupPull(p)
    \/ \E p \in Callers : LookupPush(p)
    \/ \E p \in Callers : CallUnlock(p)

SpecLocks == InitLocks /\ [][NextLocks]_vars

\* SpecLocks with the scheduler's guarantee: a goroutine that holds s.mu and can
\* take a step takes it. Nothing is assumed about who acquires a free mutex.
FairSpecLocks ==
    /\ SpecLocks
    /\ \A p \in Callers : WF_vars(CallNext(p))
    /\ \A t \in Tasks : WF_vars(TaskUnlock(t))

\* A Search of one index under each authConfig, its network steps taken one by one.
InitUpgrade ==
    /\ AuthIdle
    /\ RefIdle
    /\ ConfigIdle
    /\ queryRegistries = <<>>
    /\ \E ac \in AuthConfigs : SearchSingle(ac)

NextUpgrade ==
    \/ \E t \in Tasks : TaskLock(t)
    \/ \E t \in Tasks : TaskUnlock(t)
    \/ \E t \in Tasks : TaskEndpoint(t)
    \/ \E t \in Tasks : TaskV2Auth(t)
    \/ \E t \in Tasks : TaskAuthorize(t)
    \/ \E t \in Tasks : TaskSearch(t)
    \/ \E t \in Tasks : TaskAlloc(t)
    \/ \E t \in Tasks : TaskRange(t)
    \/ \E t \in Tasks : TaskPlace(t)
    \/ \E t \in Tasks : TaskWrite(t)
    \/ SearchSingleDone
    \/ SearchRank

SpecUpgrade == InitUpgrade /\ [][NextUpgrade]_vars

\* The unqualified term of a fanned-out Search.
BareTerm == <<"a">>

\* A Search of the unqualified term, called with authConfig, that has started its
\* goroutines and waits for them.
SearchFannedOut(authConfig) ==
    /\ searchPc = "recv"
    /\ term = BareTerm
    /\ noIndex = FALSE
    /\ results = <<>>
    /\ spawned = Len(queryRegistries)
    /\ received = 0
    /\ searchErr = Nil
    /\ successfulSearch = FALSE
    /\ searchRet = [results |-> NilResults, err |-> Nil]
    /\ mu = 0
    /\ task = [t \in Tasks |->
                IF t \in 1..Len(queryRegistries)
                THEN [NoTask EXCEPT
                        !.pc = "start",
                        !.term = SearchTermFor(t - 1, queryRegistries[t], BareTerm),
                        !.authConfig = authConfig]
                ELSE NoTask]
    /\ panicked = FALSE
    /\ lastReceived = 0
    /\ errLogged = 0
    /\ lockCount = 0

\* The two searchTerm calls of a Search fanned out over two registries, up to the
\* answers of the providers, beside callers that load the insecure registries and
\* look up pull endpoints. The credentials are those that select the V2 attempt.
InitService ==
    /\ AuthIdle
    /\ RefIdle
    /\ queryRegistries = [i \in 1..2 |-> RegistryName(i)]
    /\ SearchFannedOut([isNil |-> FALSE, IdentityToken |-> "token", Username |-> "user"])
    /\ config = ZeroConfig
    /\ call = [p \in Callers |-> NoCall]
    /\ committed = config

NextService ==
    \/ \E t \in Tasks : TaskLock(t)
    \/ \E t \in Tasks : TaskUnlock(t)
    \/ \E t \in Tasks : TaskEndpoint(t)
    \/ \E t \in Tasks : TaskV2Auth(t)
    \/ \E t \in Tasks : TaskAuthorize(t)
    \/ \E t \in Tasks : TaskSearch(t)
    \/ \E p \in Callers : LoadLock(p, {"LoadInsecureRegistries"})
    \/ \E p \in Callers : LoadValidate(p)
    \/ \E p \in Callers : LoadWrite1(p)
    \/ \E p \in Callers : LoadWrite2(p)
    \/ \E p \in Callers : ReadLock(p, {"LookupPullEndpoints"})
    \/ \E p \in Callers : LookupPull(p)
    \/ \E p \in Callers : CallUnlock(p)

SpecService == InitService /\ [][NextService]_vars

\* One raw name parsed, qualified with one index name, and printed.
InitReference ==
    /\ AuthIdle
    /\ SearchIdle
    /\ ConfigIdle
    /\ queryRegistries = <<>>
    /\ refRun \in {[NoRef EXCEPT !.pc = "parse", !.raw = s, !.indexName = h] :
                   s \in RawNames, h \in IndexNames}

NextReference ==
    \/ RefParse
    \/ RefQualify
    \/ RefRequalify
    \/ RefFamiliar

SpecReference == InitReference /\ [][NextReference]_vars

\* A registry name that is no hostname: no '.', no ':', not localhost.
PlainRegistry == <<"h">>

\* The query registries of a fan-out: r.1 first and the plain name second, or the
\* default index first.
FanOutRegistryLists ==
    {[i \in 1..n |-> IF i = 2 THEN PlainRegistry ELSE RegistryName(i)] :
        n \in 1..MaxRegistries}
    \cup {[i \in 1..n |-> IF i = 1 THEN IndexServerName ELSE RegistryName(i)] :
            n \in 1..MaxRegistries}

\* Search has found its term unqualified and is about to start its goroutines.
SearchSpawning ==
    /\ searchPc = "spawn"
    /\ term = BareTerm
    /\ noIndex = FALSE
    /\ results = <<>>
    /\ spawned = 0
    /\ received = 0
    /\ searchErr = Nil
    /\ successfulSearch = FALSE
    /\ searchRet = [results |-> NilResults, err |-> Nil]
    /\ mu = 0
    /\ task = [t \in Tasks |-> NoTask]
    /\ panicked = FALSE
    /\ lastReceived = 0
    /\ errLogged = 0
    /\ lockCount = 0

\* The fan-out of one Search for a bare term, over each list of query registries.
InitFanOut ==
    /\ AuthIdle
    /\ RefIdle
    /\ ConfigIdle
    /\ queryRegistries \in FanOutRegistryLists
    /\ SearchSpawning

NextFanOut ==
    \/ SearchSpawn
    \/ SearchSpawned
    \/ \E t \in Tasks : TaskLock(t)
    \/ \E t \in Tasks : TaskUnlock(t)
    \/ \E t \in Tasks : TaskNet(t)
    \/ \E t \in Tasks : TaskAlloc(t)
    \/ \E t \in Tasks : TaskRange(t)
    \/ \E t \in Tasks : TaskCopy(t)
    \/ \E t \in Tasks : TaskPlace(t)
    \/ \E t \in Tasks : TaskWrite(t)
    \/ \E t \in Tasks : SearchReceive(t)
    \/ SearchJoined
    \/ SearchRank

SpecFanOut == InitFanOut /\ [][NextFanOut]_vars

\* Results of one registry collected from two indexes.
DedupItems ==
    {SearchResultExt(i, RegistryName(1), st, n, EmptyString) :
        i \in RankStrings, st \in {0, 1}, n \in {<<"a">>, <<"b">>}}

\* The end of a Search without the index column: the collected results, up to one
\* more than MaxRankLen so that a third entry can sort between two others, are
\* sorted and their duplicates removed.
InitDedup ==
    /\ AuthIdle
    /\ RefIdle
    /\ ConfigIdle
    /\ queryRegistries = [i \in 1..2 |-> RegistryName(i)]
    /\ searchPc = "rank"
    /\ term = <<"a">>
    /\ noIndex = TRUE
    /\ results \in SeqsUpTo(DedupItems, MaxRankLen + 1)
    /\ spawned = 2
    /\ received = 2
    /\ searchErr = Nil
    /\ successfulSearch = TRUE
    /\ searchRet = [results |-> NilResults, err |-> Nil]
    /\ mu = 0
    /\ task = [t \in Tasks |-> IF t \in 1..2 THEN [NoTask EXCEPT !.pc = "done"] ELSE NoTask]
    /\ panicked = FALSE
    /\ lastReceived = 2
    /\ errLogged = 0
    /\ lockCount = 2

NextDedup == SearchRank

SpecDedup == InitDedup /\ [][NextDedup]_vars

\* ------------------------------------------------------------------ Auth: properties

\* C1: when Auth has returned after k >= 1 login attempts that each gave a
\* fallback error followed by one that succeeded, the successful attempt was on
\* endpoint k+1, Auth returned that attempt's status and token with a nil error,
\* and exactly k fallback lines were logged.
AuthFallbackThenSuccess ==
    LET n == Len(authAttempts)
    IN  ( /\ authPc = "done"
          /\ n >= 2
          /\ authAttempts[n].res.err = Nil
          /\ \A j \in 1..(n - 1) : authAttempts[j].res.err.kind = "fallbackError" )
        => /\ authAttempts[n].ep = n
           /\ authRet = <<authAttempts[n].res.status, authAttempts[n].res.token, Nil>>
           /\ authAttempts[n].res.status = <<"Login Succeeded", n>>
           /\ Len(authLog) = n - 1

\* Auth returned the third endpoint's success after two fallbacks.
AuthFallbackThenSuccessReached ==
    /\ authPc = "done"
    /\ Len(authAttempts) = 3
    /\ authAttempts[1].res.err.kind = "fallbackError"
    /\ authAttempts[2].res.err.kind = "fallbackError"
    /\ authAttempts[3].res.err = Nil

\* C2: a login attempt that failed with an error that is not a fallback error is
\* the last attempt made: Auth has returned that error with empty status and token.
AuthAbortsOnFatal ==
    \A i \in 1..Len(authAttempts) :
        authAttempts[i].res.err.kind = "fatal"
        => /\ i = Len(authAttempts)
           /\ authPc = "done"
           /\ authRet = <<EmptyString, EmptyString, authAttempts[i].res.err>>

\* Auth returned on a fatal error of the first of several endpoints.
AuthAbortsOnFatalReached ==
    /\ authPc = "done"
    /\ Len(authEndpoints) >= 2
    /\ Len(authAttempts) = 1
    /\ authAttempts[1].res.err.kind = "fatal"

\* C3: when Auth has returned and every endpoint of a non-empty list failed with a
\* fallback error, all endpoints were attempted in order and Auth returned the error
\* wrapped by the last endpoint's fallback error, which is not nil.
AuthExhaustionReturnsLast ==
    LET n == Len(authEndpoints)
    IN  ( /\ authPc = "done"
          /\ n >= 1
          /\ \A j \in 1..Len(authAttempts) :
                authAttempts[j].res.err.kind = "fallbackError" )
        => /\ Len(authAttempts) = n
           /\ \A j \in 1..n : authAttempts[j].ep = j
           /\ authRet = <<EmptyString, EmptyString, [kind |-> "wrapped", id |-> n]>>
           /\ authRet[3] # Nil

\* Auth returned after three endpoints all gave fallback errors.
AuthExhaustionReached ==
    /\ authPc = "done"
    /\ Len(authEndpoints) = 3
    /\ Len(authAttempts) = 3
    /\ \A j \in 1..3 : authAttempts[j].res.err.kind = "fallbackError"

\* C4: the attempts are on endpoints 1, 2, ... in that order, each at most once, at
\* most one attempt succeeded, and a successful attempt is the last attempt.
AuthAttemptDiscipline ==
    /\ Len(authAttempts) <= Len(authEndpoints)
    /\ \A i \in 1..Len(authAttempts) : authAttempts[i].ep = i
    /\ Cardinality({i \in 1..Len(authAttempts) : authAttempts[i].res.err = Nil}) <= 1
    /\ \A i \in 1..Len(authAttempts) :
        authAttempts[i].res.err = Nil => i = Len(authAttempts) /\ authPc = "done"

\* Auth returned on the success of the second of three endpoints.
AuthFirstSuccessWinsReached ==
    /\ authPc = "done"
    /\ Len(authEndpoints) = 3
    /\ Len(authAttempts) = 2
    /\ authAttempts[2].res.err = Nil

\* ------------------------------------------------------------------ Search: properties

\* Search has taken the fan-out branch: an unqualified term, N >= 1 registries.
FannedOut == searchPc # "idle" /\ term # QualifiedTerm /\ Len(queryRegistries) >= 1

\* Goroutine t has returned nil.
ReturnedNil(t) == task[t].pc = "done" /\ task[t].err = Nil

\* C5: when a fanned-out Search has returned, its error is nil exactly if at least
\* one of the N tasks returned nil, and if none did the results are nil and the
\* error is that of the task whose completion was received last.
SearchSuccessSemantics ==
    (FannedOut /\ searchPc = "returned")
    => LET N == Len(queryRegistries)
           someNil == \E t \in 1..N : ReturnedNil(t)
       IN  /\ (searchRet.err = Nil) <=> someNil
           /\ ~someNil => /\ searchRet.results = NilResults
                          /\ lastReceived \in 1..N
                          /\ searchRet.err = task[lastReceived].err
                          /\ searchRet.err # Nil

\* Search returned without error although one task failed and another returned nil.
SearchPartialFailureReached ==
    /\ FannedOut
    /\ searchPc = "returned"
    /\ searchRet.err = Nil
    /\ \E t \in 1..Len(queryRegistries) : task[t].pc = "done" /\ task[t].err # Nil
    /\ \E t \in 1..Len(queryRegistries) : ReturnedNil(t)

\* C6: once the tasks are joined, the results Search ranks and returns contain every
\* result of every task that returned nil.
SearchResultUnion ==
    (FannedOut /\ searchPc \in {"rank", "returned"})
    => \A t \in 1..Len(queryRegistries) :
         ReturnedNil(t)
         => \A k \in 1..Len(task[t].hits) :
              \E j \in 1..Len(results) :
                 results[j] = ItemOf(task[t].indexName, task[t].hits[k])

\* C7: a fanned-out Search does not get past its receive loop before it has started
\* N tasks and received N completions, and once it has begun to start tasks it
\* eventually returns, with every task past its send.
SearchJoin ==
    /\ [](FannedOut /\ searchPc \in {"rank", "returned"}
          => /\ spawned = Len(queryRegistries)
             /\ received = Len(queryRegistries)
             /\ \A t \in 1..Len(queryRegistries) : task[t].pc = "done")
    /\ (searchPc = "spawn") ~> (searchPc = "returned")

\* C8: a Search for the qualified term makes the inline searchTerm call and no other,
\* starts no goroutine whatever the number of registries, and when the call fails
\* returns nil results with that call's error.
QualifiedSearchIsSingle ==
    (searchPc # "idle" /\ term = QualifiedTerm)
    => /\ spawned = 0
       /\ received = 0
       /\ \A t \in 1..MaxRegistries : task[t].pc = "none"
       /\ task[0].pc # "none"
       /\ task[0].term = QualifiedTerm
       /\ lockCount <= 1
       /\ searchPc = "returned"
            => /\ task[0].pc = "done"
               /\ task[0].err # Nil
                    => searchRet = [results |-> NilResults, err |-> task[0].err]
               /\ task[0].err = Nil => searchRet.err = Nil

\* A qualified Search returned its call's error with two registries configured.
QualifiedSearchFailedReached ==
    /\ term = QualifiedTerm
    /\ Len(queryRegistries) = 2
    /\ searchPc = "returned"
    /\ task[0].err # Nil
    /\ searchRet.err = task[0].err

\* C9: a Search for an unqualified term with no query registry has returned nil
\* results and the NoConfiguredRepository error, no searchTerm call was started and
\* s.mu was never acquired.
NoQueryRegistriesFails ==
    (searchPc # "idle" /\ term # QualifiedTerm /\ Len(queryRegistries) = 0)
    => /\ searchPc = "returned"
       /\ searchRet = [results |-> NilResults, err |-> Err("NoConfiguredRepository", 0)]
       /\ \A t \in Tasks : task[t].pc = "none"
       /\ spawned = 0
       /\ lockCount = 0
       /\ mu = 0

\* The unqualified term "a" was refused for want of query registries.
NoQueryRegistriesReached ==
    /\ term = <<"a">>
    /\ Len(queryRegistries) = 0
    /\ searchPc = "returned"
    /\ searchRet.err = Err("NoConfiguredRepository", 0)

\* The order of the ranking with the index: indexName ascending, then starCount
\* descending, registryName, name and description ascending.
WithIndexOrder(a, b) ==
    \/ StrLess(a.IndexName, b.IndexName)
    \/ /\ a.IndexName = b.IndexName
       /\ \/ a.StarCount > b.StarCount
          \/ /\ a.StarCount = b.StarCount
             /\ \/ StrLess(a.RegistryName, b.RegistryName)
                \/ /\ a.RegistryName = b.RegistryName
                   /\ \/ StrLess(a.Name, b.Name)
                      \/ /\ a.Name = b.Name
                         /\ \/ StrLess(a.Description, b.Description)
                            \/ a.Description = b.Description

\* The order of the ranking without the index: registryName ascending, then
\* starCount descending, name and description ascending.
NoIndexOrder(a, b) ==
    \/ StrLess(a.RegistryName, b.RegistryName)
    \/ /\ a.RegistryName = b.RegistryName
       /\ \/ a.StarCount > b.StarCount
          \/ /\ a.StarCount = b.StarCount
             /\ \/ StrLess(a.Name, b.Name)
                \/ /\ a.Name = b.Name
                   /\ \/ StrLess(a.Description, b.Description)
                      \/ a.Description = b.Description

\* C10: the sequence a successful Search returns is in the order the ranking
\* selects by noIndex: every earlier entry precedes or equals every later one.
RankingOrder ==
    (searchPc = "returned" /\ searchRet.err = Nil)
    => LET items == searchRet.results.items
       IN  \A i, j \in 1..Len(items) :
             i < j => IF noIndex THEN NoIndexOrder(items[i], items[j])
                                 ELSE WithIndexOrder(items[i], items[j])

\* With the index, an entry of the lesser index came first despite its lower rating.
RankingIndexBeforeStarsReached ==
    /\ searchPc = "returned"
    /\ ~noIndex
    /\ Len(searchRet.results.items) = 2
    /\ StrLess(searchRet.results.items[1].IndexName, searchRet.results.items[2].IndexName)
    /\ searchRet.results.items[1].StarCount < searchRet.results.items[2].StarCount

\* ------------------------------------------------------------------ duplicates

\* Two results of the same repository: the same registryName and name.
Collide(a, b) == a.RegistryName = b.RegistryName /\ a.Name = b.Name

\* The position of the run of consecutive colliding entries that data[i] is in.
RunOf(data, i) ==
    Cardinality({j \in 1..i : j = 1 \/ ~Collide(data[j - 1], data[j])})

\* The position (0-based) of indexName in the configured query-registry order, their
\* number for an index that is not listed.
QueryOrderRank(indexName) ==
    LET listed == {k \in 1..Len(queryRegistries) : queryRegistries[k] = indexName}
    IN  IF listed = {} THEN Len(queryRegistries)
        ELSE (CHOOSE k \in listed : \A j \in listed : k <= j) - 1

\* a is a better survivor than b: its index comes earlier in the query-registry
\* order, or at the same place with more stars.
Beats(a, b) ==
    \/ QueryOrderRank(a.IndexName) < QueryOrderRank(b.IndexName)
    \/ /\ QueryOrderRank(a.IndexName) = QueryOrderRank(b.IndexName)
       /\ a.StarCount > b.StarCount

\* C11: of every run of consecutive colliding entries of the sorted results,
\* removeSearchDuplicates returns exactly one entry: the one whose index comes
\* earliest in the query-registry order (an unlisted index after all listed ones)
\* whatever the star counts, among those of equal priority the one with most stars,
\* and on a full tie the earliest of the run.
DedupTieBreak ==
    (searchPc = "returned" /\ searchRet.err = Nil /\ noIndex)
    => LET data == results
           out == searchRet.results.items
       IN  /\ Len(out) = (IF Len(data) = 0 THEN 0 ELSE RunOf(data, Len(data)))
           /\ \A k \in 1..Len(out) :
                \E i \in 1..Len(data) :
                    /\ RunOf(data, i) = k
                    /\ out[k] = data[i]
                    /\ \A j \in 1..Len(data) :
                        RunOf(data, j) = k =>
                            /\ ~Beats(data[j], data[i])
                            /\ (j < i => Beats(data[i], data[j]))

\* Two colliding entries were collapsed and the survivor is the one with fewer stars,
\* from the index that comes earlier in the query-registry order.
DedupPriorityOverStarsReached ==
    /\ searchPc = "returned"
    /\ noIndex
    /\ Len(results) = 2
    /\ Collide(results[1], results[2])
    /\ Len(searchRet.results.items) = 1
    /\ searchRet.results.items[1] = results[2]
    /\ results[2].StarCount < results[1].StarCount
    /\ QueryOrderRank(results[2].IndexName) < QueryOrderRank(results[1].IndexName)

\* ------------------------------------------------------------------ lookups: properties

\* Caller p has the result of its call of op in hand and is about to return it.
Returning(p, op) == call[p].pc = "unlock" /\ call[p].op = op

\* C12: a LookupPushEndpoints result holds no mirror and is exactly the non-mirror
\* endpoints of the lookup in their order; in a LookupPullEndpoints result no
\* endpoint of the registry itself comes before a mirror and no V1 endpoint before a
\* V2 endpoint; and under V2Only neither result holds a V1 endpoint.
EndpointOrdering ==
    \A p \in Callers :
        LET got == call[p].endpoints
            all == lookupEndpoints(call[p].seen, call[p].host).endpoints
            own == {a \in 1..Len(all) : ~all[a].Mirror}
        IN  /\ Returning(p, "LookupPushEndpoints") =>
                /\ \A i \in 1..Len(got) : ~got[i].Mirror
                /\ Len(got) = Cardinality(own)
                /\ \A a \in own : \E i \in 1..Len(got) : got[i] = all[a]
                /\ \A i, j \in 1..Len(got) :
                      i < j => \E a, b \in own : a < b /\ all[a] = got[i] /\ all[b] = got[j]
                /\ call[p].seen.V2Only => \A i \in 1..Len(got) : got[i].Version # APIVersion1
            /\ Returning(p, "LookupPullEndpoints") =>
                /\ \A i, j \in 1..Len(got) :
                      i < j => /\ ~(~got[i].Mirror /\ got[j].Mirror)
                               /\ ~(got[i].Version = APIVersion1 /\ got[j].Version = APIVersion2)
                /\ call[p].seen.V2Only => \A i \in 1..Len(got) : got[i].Version # APIVersion1

\* A push lookup under two mirrors returned the three endpoints of an insecure host
\* and no mirror.
PushWithoutMirrorsReached ==
    \E p \in Callers :
        /\ Returning(p, "LookupPushEndpoints")
        /\ Len(call[p].seen.Mirrors) = 2
        /\ Len(call[p].endpoints) = 3
        /\ call[p].endpoints[1].Version = APIVersion2
        /\ call[p].endpoints[3].Scheme = "http"

\* C13: a pull lookup for a secure host under two mirrors, V2Only off, returns
\* exactly mirror 1, mirror 2, the host's V2 endpoint and the host's V1 endpoint over
\* HTTPS; and no lookup returns an HTTP endpoint of a host that is not classified
\* insecure.
NoPlainHTTPForSecureHost ==
    \A p \in Callers :
        LET got == call[p].endpoints
            cfg == call[p].seen
            host == call[p].host
        IN  /\ ( /\ Returning(p, "LookupPullEndpoints")
                 /\ call[p].err = Nil
                 /\ isSecureIndex(cfg, host)
                 /\ Len(cfg.Mirrors) = 2
                 /\ ~cfg.V2Only )
               => /\ Len(got) = 4
                  /\ got[1].Mirror /\ got[1].Host = cfg.Mirrors[1]
                  /\ got[2].Mirror /\ got[2].Host = cfg.Mirrors[2]
                  /\ got[3] = Endpoint(FALSE, "https", host, APIVersion2, TRUE)
                  /\ got[4] = Endpoint(FALSE, "https", host, APIVersion1, TRUE)
            /\ (Returning(p, "LookupPullEndpoints") \/ Returning(p, "LookupPushEndpoints"))
               => \A i \in 1..Len(got) :
                    (got[i].Scheme = "http" /\ got[i].Host = host)
                    => ~isSecureIndex(cfg, host)

\* A pull lookup for a secure host that an insecure CIDR does not cover returned
\* four endpoints under two different mirrors.
SecurePullUnderTwoMirrorsReached ==
    \E p \in Callers :
        /\ Returning(p, "LookupPullEndpoints")
        /\ call[p].host = PlainHost
        /\ Len(call[p].seen.Mirrors) = 2
        /\ call[p].seen.Mirrors[1] # call[p].seen.Mirrors[2]
        /\ ~call[p].seen.V2Only
        /\ Len(call[p].endpoints) = 4

\* ------------------------------------------------------------------ configuration: properties

\* What ServiceConfig copies of a configuration.
ServiceConfigOf(cfg) == [cfg EXCEPT !.V2Only = FALSE]

\* C14: whatever the interleaving of the loads with the readers, a reader reads the
\* configuration only as a load left it, never between the replacements of one load:
\* so it is for a caller that is reading, for the searchTerm call that resolves its
\* index, and for what ServiceConfig, ResolveRepository, TLSConfig and the lookups
\* have observed when they return.
ConfigAtomicity ==
    /\ \A p \in Callers :
        /\ call[p].pc \in {"read", "read2"} => config = committed
        /\ Returning(p, "ServiceConfig") => call[p].seen = ServiceConfigOf(committed)
        /\ (call[p].pc = "unlock" /\ call[p].op \in ReadOps \ {"ServiceConfig"})
           => call[p].seen = committed
    /\ \A t \in Tasks : task[t].pc = "locked" => config = committed

\* ServiceConfig returns both sets of one LoadInsecureRegistries call, after the
\* searchTerm call has resolved its index.
ReaderAfterLoadReached ==
    \E p \in Callers :
        /\ Returning(p, "ServiceConfig")
        /\ call[p].seen.InsecureRegistryCIDRs = {CIDREntry}
        /\ call[p].seen.IndexConfigs = {HostEntry}
        /\ task[0].pc = "net"

\* The set or sequence a load replaces, in configuration cfg.
Targeted(op, cfg) ==
    CASE op = "LoadAllowNondistributableArtifacts" ->
            <<cfg.AllowNondistributableArtifactsCIDRs,
              cfg.AllowNondistributableArtifactsHostnames>>
      [] op = "LoadInsecureRegistries" -> <<cfg.InsecureRegistryCIDRs, cfg.IndexConfigs>>
      [] op = "LoadMirrors" -> <<cfg.Mirrors>>

\* C15: a load given a list with a malformed entry returns InvalidConfigEntry and
\* leaves the whole configuration as it was before the call; a load given valid
\* entries returns nil, its target holds the entries of the list and nothing else,
\* and the targets of the other loads are as before the call.
AllOrNothingLoad ==
    \A p \in Callers :
        (call[p].pc = "unlock" /\ call[p].op \in LoadOps)
        => LET list == call[p].arg
               before == call[p].before
           IN  IF \E i \in 1..Len(list) : list[i] = BadEntry
               THEN /\ call[p].err = Err("InvalidConfigEntry", 0)
                    /\ config = before
               ELSE /\ call[p].err = Nil
                    /\ \A op \in LoadOps \ {call[p].op} :
                          Targeted(op, config) = Targeted(op, before)
                    /\ config.V2Only = before.V2Only
                    /\ Targeted(call[p].op, config) =
                         IF call[p].op = "LoadMirrors" THEN <<list>>
                         ELSE <<{e \in {CIDREntry} : \E i \in 1..Len(list) : list[i] = e},
                                {e \in {HostEntry} : \E i \in 1..Len(list) : list[i] = e}>>

\* A load of a host name alone has emptied the CIDRs that were configured.
LoadReplacedWholesaleReached ==
    \E p \in Callers :
        /\ call[p].pc = "unlock"
        /\ call[p].op = "LoadInsecureRegistries"
        /\ call[p].arg = <<HostEntry>>
        /\ call[p].before.InsecureRegistryCIDRs = {CIDREntry}
        /\ config.InsecureRegistryCIDRs = {}
        /\ config.IndexConfigs = {HostEntry}

\* ------------------------------------------------------------------ searchTerm: properties

\* C20: a searchTerm call that has come to choose its client attempts the V2-token
\* client exactly when authConfig carries an identity token and a user name, and
\* never without an identity token. When the attempt fails with a fallbackError the
\* call writes one Errorf line and goes on with the V1 client: it does not return
\* that error, searches with the V1 client, and returns without having searched only
\* if authorizeClient refuses the V1 client. When the attempt fails otherwise the
\* call returns that error, SearchRepositories has not run, nothing is logged and
\* the shared results are as they were.
V2UpgradeTolerance ==
    \A t \in Tasks :
        LET k == task[t]
            attempted == k.v2 \in {"fallback", "fatal", "found", "notfound"}
            returned == k.pc \in {"exit", "done"}
        IN  /\ (k.v2 = "pending" \/ attempted) => wantsV2(k.authConfig)
            /\ k.v2 = "skipped" => ~wantsV2(k.authConfig)
            /\ (k.authConfig.isNil \/ k.authConfig.IdentityToken = "")
               => (~attempted /\ k.logged = 0)
            /\ k.v2 = "fallback" =>
                /\ k.logged = 1
                /\ k.pc # "v2auth"
                /\ k.err.kind # "fallbackError"
                /\ k.pc = "search" => k.client = "v1"
                /\ (returned /\ ~k.searched) => k.err = Err("authorizeClient", t)
            /\ k.v2 = "fatal" =>
                /\ returned
                /\ k.err = Err("fatal", t)
                /\ ~k.searched
                /\ k.logged = 0
                /\ results = <<>>
                /\ searchPc = "returned" => searchRet.err = Err("fatal", t)

\* A call whose V2 attempt failed with a fallbackError has searched with the V1
\* client, and Search has returned its result.
V2FallbackThenSearchedReached ==
    /\ task[0].v2 = "fallback"
    /\ task[0].searched
    /\ searchPc = "returned"
    /\ searchRet.err = Nil
    /\ Len(searchRet.results.items) = 1

\* The steps of a searchTerm call over the network: the V1 endpoint, the V2 attempt,
\* the authorization of the V1 client, the provider search.
NetworkPcs == {"net", "v2auth", "authorize", "search"}

\* C16: a searchTerm call holds s.mu only while it resolves its index: it holds it at
\* no network step nor after; so whenever no call is resolving its index and no
\* caller is inside a load or a lookup, s.mu is free to be taken, however many calls
\* are at their network steps, and a caller inside a load or a lookup holds s.mu
\* until it returns, so that no searchTerm call can stop it.
LockScopeDuringSearch ==
    /\ \A t \in Tasks : mu = t + 1 => task[t].pc = "locked"
    /\ \A t \in Tasks : task[t].pc \in NetworkPcs => mu # t + 1
    /\ ((\A t \in Tasks : task[t].pc # "locked") /\ (\A p \in Callers : call[p].pc = "idle"))
       => mu = 0
    /\ \A p \in Callers : call[p].pc # "idle" => mu = HeldBy(p)

\* Both searchTerm calls are at network steps, one of them in the V2 attempt, and a
\* load has replaced the insecure registries meanwhile.
LoadDuringNetworkReached ==
    /\ task[1].pc = "v2auth"
    /\ task[2].pc \in NetworkPcs
    /\ \E p \in Callers :
        /\ call[p].pc = "unlock"
        /\ call[p].op = "LoadInsecureRegistries"
        /\ call[p].err = Nil
        /\ config # call[p].before

\* ------------------------------------------------------------------ references: properties

\* The raw name was written with this domain, path and tag.
WrittenAs(d, p, t) == refRun.raw = Raw(d, p, t)

\* The default registries, as a set.
DefaultRegistrySet == {DefaultRegistries[k] : k \in DOMAIN DefaultRegistries}

\* C17: a single-segment lowercase name with no domain parses to a reference
\* whose path is library/ and the name; a name with a '/' in its remainder, or
\* with the domain of a registry that is not a default one, parses to a
\* reference whose name is what was written, with no library/ added.
OfficialNamespaceRule ==
    \A d \in RawDomains, p \in Paths, t \in RawTags :
        WrittenAs(d, p, t) /\ "parse" \in refRun.did /\ refRun.err = Nil =>
            /\ d = EmptyString /\ Len(p) = 1 =>
                   /\ refRun.named.name = Library \o <<"/">> \o p[1]
                   /\ refRun.named.tag = t
            /\ Len(p) > 1 \/ (d # EmptyString /\ d \notin DefaultRegistrySet) =>
                   /\ refRun.named.name = Raw(d, p, EmptyString)
                   /\ refRun.named.tag = t

\* A bare "a" has been parsed to library/a, and it is the parse that added
\* the namespace.
BareNameParsedOfficialReached ==
    /\ refRun.raw = <<"a">>
    /\ "parse" \in refRun.did
    /\ refRun.err = Nil
    /\ refRun.named.name = Library \o <<"/", "a">>

\* C18: an unqualified reference, qualified with a default registry and printed
\* through trimDefaultRegistry, reads as its own familiar string, the official
\* library/ namespace elided or not.
QualifyTrimRoundTrip ==
    \A p \in Paths, t \in RawTags :
        /\ WrittenAs(EmptyString, p, t)
        /\ "familiar" \in refRun.did
        /\ refRun.indexName \in DefaultRegistrySet
        => \/ refRun.trimmed = refRun.familiar
           \/ Library \o <<"/">> \o refRun.trimmed = refRun.familiar

\* C19: qualifying with an index name that fails the hostname predicate returns
\* an invalid-hostname error and no reference; with one that satisfies it, a
\* reference that already has an index is returned unchanged without error,
\* and qualifying the result again with the same index name returns the result.
QualifyIdempotence ==
    /\ "qualify" \in refRun.did /\ refRun.indexName \in InvalidIndexNames =>
           /\ refRun.qualifyErr.kind = "Invalid hostname"
           /\ refRun.qualified = NoNamed
    /\ "qualify" \in refRun.did /\ refRun.indexName \in ValidIndexNames =>
           /\ refRun.qualifyErr = Nil
           /\ \A d \in RawDomains \ {EmptyString}, q \in Paths, t \in RawTags :
                  WrittenAs(d, q, t) => refRun.qualified = refRun.named
    /\ "requalify" \in refRun.did =>
           /\ refRun.requalifyErr = Nil
           /\ refRun.requalified = refRun.qualified

\* library/a, which has no index, has been qualified with r.2 and qualified
\* again: the index name is in front once.
QualifiedTwiceReached ==
    /\ "requalify" \in refRun.did
    /\ refRun.named.name = Library \o <<"/", "a">>
    /\ refRun.indexName = RegistryName(2)
    /\ refRun.requalified.name = RegistryName(2) \o <<"/">> \o Library \o <<"/", "a">>

\* ------------------------------------------------------------------ fan-out: properties

\* The query registries, as a set.
QueryRegistrySet == {queryRegistries[i] : i \in DOMAIN queryRegistries}

\* C21: in a fan-out no more tasks are started than there are query registries,
\* the task started for the i-th registry resolves its index to that registry,
\* and every collected result carries the name of a query registry as its index
\* (a slot of the shared slice that no task has filled yet carries none).
FanOutCoverage ==
    /\ spawned <= Len(queryRegistries)
    /\ \A i \in 1..Len(queryRegistries) :
           task[i].pc \notin {"none", "start"} => task[i].indexName = queryRegistries[i]
    /\ \A k \in DOMAIN results :
           results[k] # ZeroResult => results[k].IndexName \in QueryRegistrySet

\* ------------------------------------------------------------------ duplicates: completeness

\* C22: the results Search returns without the index column hold no two entries
\* with the same registry name and name.
DedupCompleteness ==
    (searchPc = "returned" /\ searchRet.err = Nil /\ noIndex)
    => LET out == searchRet.results.items
       IN  \A i, j \in 1..Len(out) : i < j => ~Collide(out[i], out[j])

\* ------------------------------------------------------------------ Auth: success

\* The login attempts that returned a nil error.
Successes == {i \in 1..Len(authAttempts) : authAttempts[i].res.err = Nil}

LockDiscipline ==
    /\ [](/\ \A p \in Callers : mu = HeldBy(p) <=> call[p].pc # "idle"
          /\ \A t \in Tasks : mu = t + 1 <=> task[t].pc = "locked"
          /\ Cardinality({p \in Callers : call[p].pc # "idle"}
                          \cup {0 - t - 1 : t \in {u \in Tasks : task[u].pc = "locked"}})
                 <= 1)
    /\ ((mu # 0) ~> (mu = 0))

\* A caller has been through LookupPushEndpoints, the lookup Auth makes, on a host
\* that fails validation, and is at its deferred unlock while searchTerm waits for
\* the mutex.
LockedErrorPathReached ==
    \E p \in Callers :
        /\ Returning(p, "LookupPushEndpoints")
        /\ call[p].err # Nil
        /\ mu = HeldBy(p)
        /\ task[0].pc = "start"

====
